---- MODULE Spec2Model ----
(***************************************************************************)
(* A model of the NES emulator core: the 6502 CPU's cycle accounting,     *)
(* interrupts and OAM DMA (nes/src/cpu.rs), the CPU bus (cpubus.rs), the   *)
(* PPU raster position and status flags (ppu/mod.rs), the APU frame        *)
(* sequencer (audio/frame_counter.rs) and the orchestrator's step          *)
(* (nes.rs).                                                               *)
(*                                                                         *)
(* The machine is threaded through the operators as one record             *)
(*   m = [cpu, ram, ppu, oam, apu, panic]                                  *)
(* so that a handler which calls other handlers is one action.  Memories   *)
(* are zero-initialised arrays in the source; they are kept as finite maps *)
(* that hold only the non-zero bytes.                                      *)
(***************************************************************************)
EXTENDS Integers, Sequences, FiniteSets, TLC

VARIABLES
    rom,              \* PRG ROM image (the cartridge; never written)
    overflow_checks,  \* build profile: TRUE = arithmetic overflow panics
    cpu,              \* Cpu: cy, busy, a, x, y, s, flags, pc
    ram,              \* CpuBus.ram
    ppu,              \* Ppu: position, control, mask, status, immediate_nmi
    oam,              \* Ppu.oam.oam
    apu,              \* Apu: even_cycle and the frame counter
    panic,            \* "" while the process runs, else the panic message
    op,               \* the operation performed by the last transition
    steps,            \* number of completed Nes::step / Cpu::step calls
    calls,            \* the calls made, in order, by the last Nes::step
    driver,           \* emulation::run: its state, the frame pool, the channels
    gamepad_0,        \* Input.gamepad_0: the gamepad and its strobe state
    hist              \* history: what the last operations observed

vars == <<rom, overflow_checks, gamepad_0, driver, cpu, ram, ppu, oam, apu, panic, op, steps, calls, hist>>

----------------------------------------------------------------------------
(* Bounds of the model *)

MaxSteps == 57200
MaxCpuSteps == 600
MaxPpuCycle == 178690
MaxIntCalls == 2

----------------------------------------------------------------------------
(* The state of emulation::run (emulation.rs) and of its two channels.  A   *)
(* Frame is its identity and the number of the picture the PPU drew into it *)

\* Frame::new: the i-th Frame allocated, all zero
FrameNew(i) == [id |-> i, picture |-> 0]

\* the Option::None of FrameBuffer::get
NoFrame == [id |-> 0, picture |-> 0]

\* FrameBuffer::new: a pool of three frames
FrameBufferNew == <<FrameNew(2), FrameNew(3), FrameNew(4)>>

\* a pool that drops the frames given back to it
FrameBufferDrop(frames, frame) == frames

\* FrameBuffer::put
FrameBufferPut(frames, frame) == Append(frames, frame)

\* FrameBuffer::get: Vec::pop
FrameBufferGet(frames) ==
    IF frames = <<>> THEN [frames |-> frames, frame |-> NoFrame]
    ELSE [frames |-> SubSeq(frames, 1, Len(frames) - 1), frame |-> frames[Len(frames)]]

\* the locals of run, nes.cpu.mem.ppu.screen, the messages in flight on
\* on_frame and on_control, and the frames the consumer holds
DriverNew ==
    [state |-> "Pause", frame_buffer |-> FrameBufferNew, screen |-> FrameNew(1),
     picture |-> 1, on_frame |-> <<>>, on_control |-> <<>>, consumer |-> {}]

----------------------------------------------------------------------------
(* The controller port (input.rs) *)

\* the buttons in the order of the STROBE_STATE_ constants, 0 to 7
Buttons == <<"a", "b", "select", "start", "up", "down", "left", "right">>

\* a GamePadState with the buttons of pressed down
GamePad(pressed) == [b \in {Buttons[i] : i \in 1..8} |-> b \in pressed]

\* Input::new
InputNew == [gamepad |-> GamePad({}), strobe |-> 0]

\* StrobeState::get
StrobeGet(strobe, gamepad) == gamepad[Buttons[strobe + 1]]

\* a strobe state that stays where it is
StrobeStay(strobe) == strobe

\* StrobeState::next
StrobeNext(strobe) == (strobe + 1) % 8

\* Input::set
InputSet(i, gamepad) == [i EXCEPT !.gamepad = gamepad]

\* Input::peekb
InputPeekB(i, addr) ==
    IF addr = 16406 THEN (IF StrobeGet(i.strobe, i.gamepad) THEN 1 ELSE 0) ELSE 0

\* Input::loadb: the input after it and the byte loaded
InputLoadB(i, addr) ==
    IF addr = 16406
    THEN [input |-> [i EXCEPT !.strobe = StrobeNext(@)],
          val |-> IF StrobeGet(i.strobe, i.gamepad) THEN 1 ELSE 0]
    ELSE [input |-> i, val |-> 0]

\* Input::storeb
InputStoreB(i, addr, val) == IF addr = 16406 THEN [i EXCEPT !.strobe = 0] ELSE i

----------------------------------------------------------------------------
(* Program constants *)

PAGE_SIZE == 256
STACK_BASE == 256
NMI_VECTOR == 65530
RESET_VECTOR == 65532
BRK_VECTOR == 65534

CARRY == 1
ZERO == 2
IRQ_DISABLE == 4
BREAK == 16
OVERFLOW == 64
NEGATIVE == 128

CLOCK_ONE == 7457
CLOCK_TWO == 14913
CLOCK_THREE == 22371
CLOCK_FOUR == 29829
CLOCK_FIVE == 37281

OAMDMA == 16404
OAMDATA == 8196

----------------------------------------------------------------------------
(* Bytes, bits and memories *)

Pow2(n) == 2 ^ n

\* bit!(val, n)
Bit(val, n) == (val \div Pow2(n)) % 2 = 1

\* toggle_bit!(val, n, hi)
ToggleBit(val, n, hi) ==
    IF hi THEN (IF Bit(val, n) THEN val ELSE val + Pow2(n))
          ELSE (IF Bit(val, n) THEN val - Pow2(n) ELSE val)

\* word!(lo, hi)
Word(lo, hi) == hi * 256 + lo

\* bitflags: Flags::contains / insert / remove, for a single-bit flag f
Contains(flags, f) == (flags \div f) % 2 = 1
Insert(flags, f) == IF Contains(flags, f) THEN flags ELSE flags + f
Remove(flags, f) == IF Contains(flags, f) THEN flags - f ELSE flags

\* Flags::set
Set(flags, f, value) == IF value THEN Insert(flags, f) ELSE Remove(flags, f)

RECURSIVE BitAnd(_, _)
\* a & b
BitAnd(a, b) ==
    IF a = 0 \/ b = 0 THEN 0
    ELSE (a % 2) * (b % 2) + 2 * BitAnd(a \div 2, b \div 2)

RECURSIVE BitXor(_, _)
\* a ^ b
BitXor(a, b) ==
    IF a = 0 THEN b
    ELSE IF b = 0 THEN a
    ELSE ((a + b) % 2) + 2 * BitXor(a \div 2, b \div 2)

\* !a, for a u16
Not16(a) == 65535 - a

\* the element of a singleton set; The({e(x) : x \in {v}}) is e with x bound
\* to the value of v, computed once
The(S) == CHOOSE x \in S : TRUE

\* a zero-initialised byte array, kept as the map of its non-zero bytes
Get(mem, a) == IF a \in DOMAIN mem THEN mem[a] ELSE 0

Put(mem, a, v) ==
    IF v = 0
    THEN [k \in DOMAIN mem \ {a} |-> mem[k]]
    ELSE [k \in DOMAIN mem \cup {a} |-> IF k = a THEN v ELSE mem[k]]

EmptyMem == [k \in {} |-> 0]

\* an arithmetic overflow panics when the build checks overflow and wraps
\* otherwise
Overflow(m, cond, msg) ==
    IF cond /\ overflow_checks /\ m.panic = "" THEN [m EXCEPT !.panic = msg] ELSE m

----------------------------------------------------------------------------
(* The CPU bus (cpubus.rs) and the devices behind it *)

\* the machine the operators below work on; dma is a scratch field: the
\* cycles an OAM DMA added to cy during the Cpu::step being computed
Machine ==
    [cpu |-> cpu, ram |-> ram, ppu |-> ppu, oam |-> oam, apu |-> apu,
     panic |-> panic, dma |-> 0]

\* Prog::peekb for a cartridge with two PRG banks
PrgLoadB(addr) == IF addr < 32768 THEN 0 ELSE Get(rom, addr % 32768)

\* PpuStatus::get
StatusGet(p) == (p.status \div 32) * 32 + (p.last_write % 32)

\* PpuPosition::is_warmed_up
IsWarmedUp(p) == p.frame > 0

\* PpuPosition::is_in_vblank
IsInVblank(p) ==
    \/ p.scanline >= 240 /\ p.scanline < 261
    \/ p.scanline = 261 /\ p.pixel = 0

\* PpuMask::rendering_enabled
RenderingEnabled(p) == Bit(p.ppumask, 3) \/ Bit(p.ppumask, 4)

\* PpuCtrl::vram_addr_increment
VramAddrIncrement(p) == IF Bit(p.ppuctrl, 2) THEN 32 ELSE 1

\* a | b
BitOr(a, b) == a + b - BitAnd(a, b)

\* Vtwx (ppu/registers.rs): t, v, w and x are fields of m.ppu; w is the
\* WriteToggle, FALSE before the first write of a pair

\* Vtwx::store_ctrl
StoreCtrl(p, val) ==
    [p EXCEPT !.t = BitOr(BitAnd(@, 29695), (val % 4) * 1024)]

\* Vtwx::store_scroll
StoreScroll(p, val) ==
    IF ~p.w
    THEN [p EXCEPT !.x = val % 8,
                   !.t = BitOr(BitAnd(@, 65504), val \div 8),
                   !.w = TRUE]
    ELSE [p EXCEPT !.t = BitOr(BitOr(BitAnd(@, 3103), (val % 8) * 4096),
                               BitAnd(val, 248) * 4),
                   !.w = FALSE]

\* Vtwx::store_addr
StoreAddr(p, val) ==
    IF ~p.w
    THEN [p EXCEPT !.t = BitOr(BitAnd(@, 255), (val % 64) * 256), !.w = TRUE]
    ELSE The({[p EXCEPT !.t = t, !.v = t, !.w = FALSE] :
                 t \in {BitOr(BitAnd(p.t, 32512), val)}})

\* Vtwx::reset_latch
ResetLatch(p) == [p EXCEPT !.w = FALSE]

\* Vtwx::increment_h (the addition cannot carry out of the low five bits)
IncrementH(p) ==
    IF BitAnd(p.v, 31) = 31
    THEN [p EXCEPT !.v = BitAnd(BitXor(@, 1024), 32736)]
    ELSE [p EXCEPT !.v = @ + 1]

\* Vtwx::increment_v (neither addition can carry out of the 16 bits: fine y
\* is below 7 in the first, course y below 31 in the second)
IncrementV(p) ==
    LET fine_y == BitAnd(p.v, 28672) \div 4096
        course_y == BitAnd(p.v, 992) \div 32
    IN  IF fine_y < 7
        THEN [p EXCEPT !.v = @ + 4096]
        ELSE IF course_y = 29
        THEN [p EXCEPT !.v = BitAnd(BitAnd(BitXor(@, 2048), 31775), 4095)]
        ELSE IF course_y = 31
        THEN [p EXCEPT !.v = BitAnd(BitAnd(@, 31775), 4095)]
        ELSE [p EXCEPT !.v = BitAnd(@ + 32, 4095)]

\* Vtwx::increment_addr: self.v += increment on a u16
IncrementAddr(m, increment) ==
    Overflow([m EXCEPT !.ppu.v = (@ + increment) % 65536],
             m.ppu.v + increment > 65535, "attempt to add with overflow")

\* Vtwx::copy_h
CopyH(p) == [p EXCEPT !.v = BitOr(BitAnd(@, 31712), BitAnd(p.t, 1055))]

\* Vtwx::copy_v
CopyV(p) == [p EXCEPT !.v = BitOr(BitAnd(@, 1055), BitAnd(p.t, 31712))]

\* inc_scrollh_cycle
IncScrollhCycle(px) == (px % 8 = 0 /\ px >= 8 /\ px <= 248) \/ px \in {328, 336}

\* the "vtwx updates" block of Ppu::step
VtwxUpdates(p, line, px) ==
    IF px = 256 THEN IncrementV(p)
    ELSE IF IncScrollhCycle(px) THEN IncrementH(p)
    ELSE IF line = 261 /\ px >= 280 /\ px <= 304 THEN CopyV(p)
    ELSE IF px = 257 THEN CopyH(p)
    ELSE p

\* Vram (ppu/vram.rs): nametables and palette are fields of m.ppu, kept as
\* the maps of their non-zero bytes; the cartridge's CHR memory is the ROM of
\* mapper 0, all zero, which ignores stores

\* Vram::peekb, which Vram::loadb is
VramPeekB(p, addr) ==
    LET a == addr % 16384
    IN  IF a < 8192 THEN 0
        ELSE IF a < 16128 THEN Get(p.nametables, a % 2048)
        ELSE Get(p.palette, a % 32)

\* Vram::storeb
VramStoreB(p, addr, val) ==
    LET a == addr % 16384
    IN  IF a < 8192 THEN p
        ELSE IF a < 16128 THEN [p EXCEPT !.nametables = Put(@, a % 2048, val)]
        ELSE [p EXCEPT !.palette = Put(@, IF a % 32 = 16 THEN 0 ELSE a % 32, val)]

\* Ppu::loadb, the value returned (ports 0, 1, 3, 5 and 6 read as 0; the data
\* port 7 gives the read buffer below the palette and the byte itself in it)
PpuLoadVal(m, addr) ==
    CASE addr % 8 = 2 -> StatusGet(m.ppu)
      [] addr % 8 = 4 -> Get(m.oam, m.ppu.oam_addr)
      [] addr % 8 = 7 ->
            IF m.ppu.v <= 16127 THEN m.ppu.ppu_data_buffer
            ELSE VramPeekB(m.ppu, m.ppu.v)
      [] OTHER -> 0

\* Ppu::loadb, its effect: a status read clears the vblank flag and resets
\* the write toggle, a read of the data port moves the VRAM address on
PpuLoadFx(m, addr) ==
    IF addr % 8 = 2
    THEN [m EXCEPT !.ppu = ResetLatch([@ EXCEPT !.status = ToggleBit(@, 7, FALSE)])]
    ELSE IF addr % 8 = 7
    THEN IncrementAddr([m EXCEPT !.ppu.ppu_data_buffer = VramPeekB(m.ppu, m.ppu.v)],
                       VramAddrIncrement(m.ppu))
    ELSE m

\* Ppu::storeb
PpuStoreB(m, addr, val) ==
    LET m1 == [m EXCEPT !.ppu.last_write = val]
        port == addr % 8
    IN  CASE port = 0 ->
                IF ~IsWarmedUp(m1.ppu) THEN m1
                ELSE IF Bit(val, 5) THEN [m1 EXCEPT !.panic = "Sprite size set to 8x16"]
                ELSE IF Bit(val, 6) THEN [m1 EXCEPT !.panic = "PPU secondary mode selected"]
                ELSE [m1 EXCEPT
                        !.ppu = StoreCtrl(
                            [@ EXCEPT
                                !.immediate_nmi =
                                    IF /\ Bit(val, 7) /\ Bit(m1.ppu.status, 7)
                                       /\ IsInVblank(m1.ppu)
                                    THEN TRUE ELSE @,
                                !.ppuctrl = val], val)]
          [] port = 1 -> [m1 EXCEPT !.ppu.ppumask = val]
          [] port = 3 -> [m1 EXCEPT !.ppu.oam_addr = val]
          [] port = 4 -> [m1 EXCEPT !.oam = Put(@, m1.ppu.oam_addr, val),
                                    !.ppu.oam_addr = (@ + 1) % 256]
          [] port = 5 -> [m1 EXCEPT !.ppu = StoreScroll(@, val)]
          [] port = 6 -> [m1 EXCEPT !.ppu = StoreAddr(@, val)]
          [] port = 7 -> IncrementAddr([m1 EXCEPT !.ppu = VramStoreB(@, m1.ppu.v, val)],
                                       VramAddrIncrement(m1.ppu))
          [] OTHER -> m1

\* Sweep::new, with its Divider
SweepNew(ones_complement) ==
    [divider |-> [current |-> 0, period |-> 0], enabled |-> FALSE, negate |-> FALSE,
     ones_complement |-> ones_complement, shift_count |-> 0]

\* audio/length.rs: the length loaded by each of the 32 values of a length
\* register
LENGTH_LOOKUP ==
    <<10, 254, 20, 2, 40, 4, 80, 6, 160, 8, 60, 10, 14, 12, 26, 14,
      12, 16, 24, 18, 48, 20, 96, 22, 192, 24, 72, 26, 16, 28, 32, 30>>

\* LengthCounter::new
LengthCounterNew == [halt |-> FALSE, length |-> 0]

\* LengthCounter::set
LengthSet(l, val) == [l EXCEPT !.length = LENGTH_LOOKUP[val + 1]]

\* LengthCounter::set_zero
LengthSetZero(l) == [l EXCEPT !.length = 0]

\* LengthCounter::clock
LengthClock(l) == IF ~l.halt /\ l.length > 0 THEN [l EXCEPT !.length = @ - 1] ELSE l

\* Square::new: the sweep unit, the period of the timer and the length
\* counter (the envelope and the sequencer are not part of this machine)
SquareNew(square_idx) ==
    [sweep |-> SweepNew(square_idx = 0), period |-> 0, length |-> LengthCounterNew]

\* Sweep::update
SweepUpdate(sw, val) ==
    [sw EXCEPT !.enabled = Bit(val, 7),
               !.divider = [current |-> (val % 128) \div 16, period |-> (val % 128) \div 16],
               !.negate = Bit(val, 3),
               !.shift_count = val % 8]

\* Sweep::calc_target: i32 arithmetic, cast to u16
CalcTarget(sw, period) ==
    LET shifted_period == period \div Pow2(sw.shift_count)
    IN  IF sw.negate
        THEN (period - shifted_period - (IF sw.ones_complement THEN 1 ELSE 0)) % 65536
        ELSE (period + shifted_period) % 65536

\* Sweep::mute
SweepMute(sw, period) == period < 8 \/ CalcTarget(sw, period) > 2047

\* Square::half_frame_clock with Sweep::clock and Divider::clock
HalfFrameClock(sq) ==
    LET is_muted == SweepMute(sq.sweep, sq.period)
        divider_clock == sq.sweep.divider.current = 0
        divider == IF divider_clock
                   THEN [sq.sweep.divider EXCEPT !.current = sq.sweep.divider.period]
                   ELSE [sq.sweep.divider EXCEPT !.current = @ - 1]
    IN  [sq EXCEPT !.length = LengthClock(@),
                   !.sweep.divider = divider,
                   !.period = IF divider_clock /\ sq.sweep.enabled /\ ~is_muted
                              THEN CalcTarget(sq.sweep, sq.period) ELSE @]

\* Timer::set_period_lo and Timer::set_period_hi of the low three bits
SetTimerLo(sq, val) == [sq EXCEPT !.period = val + (@ \div 256) * 256]

SetTimerHi(sq, val) == [sq EXCEPT !.period = (val % 8) * 256 + (@ % 256)]

\* Square::set_len_timer_hi: the low 3 bits to the timer, the high 5 bits to
\* the length counter
SetLenTimerHi(sq, val) == [SetTimerHi(sq, val) EXCEPT !.length = LengthSet(@, val \div 8)]

\* Square::set_enabled and Noise::set_enabled
SetEnabled(ch, enabled) == IF ~enabled THEN [ch EXCEPT !.length = LengthSetZero(@)] ELSE ch

\* Triangle::set_enabled: LengthCounter::mute only tells whether the length
\* is 0, and its result is dropped
TriangleSetEnabled(ch, enabled) == ch

\* Apu::update_flags (the DMC never runs: Dmc::is_running is false)
UpdateFlags(a, val) ==
    [a EXCEPT !.square1 = SetEnabled(@, Bit(val, 0)),
              !.square2 = SetEnabled(@, Bit(val, 1)),
              !.triangle = TriangleSetEnabled(@, Bit(val, 2)),
              !.noise = SetEnabled(@, Bit(val, 3))]

\* Square::is_running, Triangle::is_running, Noise::is_running
IsRunning(ch) == ch.length.length > 0

\* Apu::peekb
ApuPeekB(a, addr) ==
    IF addr # 16405 THEN 0
    ELSE (IF IsRunning(a.noise) THEN 8 ELSE 0) + (IF IsRunning(a.triangle) THEN 4 ELSE 0)
           + (IF IsRunning(a.square2) THEN 2 ELSE 0) + (IF IsRunning(a.square1) THEN 1 ELSE 0)

\* FrameCounter::reset_irq, reached from Apu::loadb of the status register
ApuLoadFx(m, addr) ==
    IF addr = 16405 THEN [m EXCEPT !.apu.irq_flag = FALSE] ELSE m

\* Apu::storeb: register 0x4017 reaches FrameCounter::update; 0x4014 and
\* 0x4018 reach the unreachable!() arm; of the channels' registers the sweep
\* and timer registers of the two squares are part of this machine
ApuStoreB(m, addr, val) ==
    CASE addr = 16384 -> [m EXCEPT !.apu.square1.length.halt = Bit(val, 5)]
      [] addr = 16385 -> [m EXCEPT !.apu.square1.sweep = SweepUpdate(@, val)]
      [] addr = 16386 -> [m EXCEPT !.apu.square1 = SetTimerLo(@, val)]
      [] addr = 16387 -> [m EXCEPT !.apu.square1 = SetLenTimerHi(@, val)]
      [] addr = 16388 -> [m EXCEPT !.apu.square2.length.halt = Bit(val, 5)]
      [] addr = 16389 -> [m EXCEPT !.apu.square2.sweep = SweepUpdate(@, val)]
      [] addr = 16390 -> [m EXCEPT !.apu.square2 = SetTimerLo(@, val)]
      [] addr = 16391 -> [m EXCEPT !.apu.square2 = SetLenTimerHi(@, val)]
      [] addr = 16392 -> [m EXCEPT !.apu.triangle.length.halt = Bit(val, 7)]
      [] addr = 16395 -> [m EXCEPT !.apu.triangle.length = LengthSet(@, val \div 8)]
      [] addr = 16396 -> [m EXCEPT !.apu.noise.length.halt = Bit(val, 5)]
      [] addr = 16399 -> [m EXCEPT !.apu.noise.length = LengthSet(@, val \div 8)]
      [] addr = 16405 -> [m EXCEPT !.apu = UpdateFlags(@, val)]
      [] addr = 16407 ->
            [m EXCEPT !.apu.mode = IF Bit(val, 7) THEN "FiveStep" ELSE "FourStep",
                      !.apu.irq_inhibit = Bit(val, 6),
                      !.apu.irq_flag = IF Bit(val, 6) THEN FALSE ELSE @,
                      !.apu.reset_countdown = IF m.apu.cycle % 2 = 0 THEN 3 ELSE 4]
      [] addr \in {16404, 16408} ->
            [m EXCEPT !.panic = "internal error: entered unreachable code"]
      [] OTHER -> m

\* Ppu::peekb
PpuPeekVal(m, addr) ==
    CASE addr % 8 = 0 -> m.ppu.ppuctrl
      [] addr % 8 = 1 -> m.ppu.ppumask
      [] addr % 8 = 2 -> StatusGet(m.ppu)
      [] addr % 8 = 3 -> m.ppu.oam_addr
      [] addr % 8 = 4 -> Get(m.oam, m.ppu.oam_addr)
      [] OTHER -> 0

\* CpuBus::peekb (no button of the controller is held)
BusPeekVal(m, addr) ==
    IF addr < 8192 THEN Get(m.ram, addr % 2048)
    ELSE IF addr < 16384 THEN PpuPeekVal(m, addr)
    ELSE IF addr = 16406 THEN 0
    ELSE IF addr <= 16408 THEN ApuPeekB(m.apu, addr)
    ELSE IF addr < 24576 THEN 0
    ELSE PrgLoadB(addr)

\* CpuBus::loadb, the value returned
BusLoadVal(m, addr) ==
    IF addr < 8192 THEN Get(m.ram, addr % 2048)
    ELSE IF addr < 16384 THEN PpuLoadVal(m, addr)
    ELSE IF addr = 16406 THEN 0
    ELSE IF addr <= 16408 THEN ApuPeekB(m.apu, addr)
    ELSE IF addr < 24576 THEN 0
    ELSE PrgLoadB(addr)

\* CpuBus::loadb, its effect on the devices
BusLoadFx(m, addr) ==
    IF addr < 8192 THEN m
    ELSE IF addr < 16384 THEN PpuLoadFx(m, addr)
    ELSE IF addr = 16406 THEN m
    ELSE IF addr <= 16408 THEN ApuLoadFx(m, addr)
    ELSE m

\* CpuBus::storeb
BusStoreB(m, addr, val) ==
    IF addr < 8192 THEN [m EXCEPT !.ram = Put(@, addr % 2048, val)]
    ELSE IF addr < 16384 THEN PpuStoreB(m, addr, val)
    ELSE IF addr = 16406 THEN m
    ELSE IF addr <= 16408 THEN ApuStoreB(m, addr, val)
    ELSE m

----------------------------------------------------------------------------
(* The CPU (cpu.rs) *)

\* impl Mem for Cpu: loadb, as the pair of the machine after and the value
CpuLoadB(m, addr) == [m |-> BusLoadFx(m, addr), val |-> BusLoadVal(m, addr)]

\* Mem::loadw; word!(lo, hi) evaluates its hi argument first
LoadW(m, addr) ==
    LET m0 == Overflow(m, addr = 65535, "attempt to add with overflow")
        h == CpuLoadB(m0, (addr + 1) % 65536)
        l == CpuLoadB(h.m, addr)
    IN  [m |-> l.m, val |-> Word(l.val, h.val)]

RECURSIVE DmaCopy(_, _, _)
\* the loop of Cpu::dma, for addr in start..end: each pass loads a byte and
\* stores it to OAMDATA (the range is halved to keep the evaluation shallow)
DmaCopy(m, start, end) ==
    IF start >= end THEN m
    ELSE IF end - start = 1
    THEN The({BusStoreB(l.m, OAMDATA, l.val) : l \in {CpuLoadB(m, start)}})
    ELSE The({IF half.panic # "" THEN half
              ELSE DmaCopy(half, (start + end) \div 2, end) :
                 half \in {DmaCopy(m, start, (start + end) \div 2)}})

\* Cpu::dma
Dma(m, page) ==
    LET start == page * 256
        m0 == Overflow(m, start + PAGE_SIZE > 65535, "attempt to add with overflow")
        end == (start + PAGE_SIZE) % 65536
        n == IF m.cpu.cy % 2 = 0 THEN 513 ELSE 514
        m1 == [m0 EXCEPT !.cpu.cy = @ + n, !.dma = n]
    IN  DmaCopy(m1, start, end)

\* impl Mem for Cpu: storeb
CpuStoreB(m, addr, val) ==
    IF addr = OAMDMA THEN Dma(m, val) ELSE BusStoreB(m, addr, val)

\* Cpu::pushb
PushB(m, val) ==
    LET addr == STACK_BASE + m.cpu.s
        m0 == Overflow(m, m.cpu.s = 0, "attempt to subtract with overflow")
    IN  CpuStoreB([m0 EXCEPT !.cpu.s = (@ + 255) % 256], addr, val)

\* Cpu::pushw
PushW(m, val) == PushB(PushB(m, val \div 256), val % 256)

\* Cpu::popb, as the pair of the machine after and the byte pulled
PopB(m) ==
    LET addr == STACK_BASE + m.cpu.s + 1
        m0 == Overflow(m, m.cpu.s = 255, "attempt to add with overflow")
        l == CpuLoadB([m0 EXCEPT !.cpu.s = (@ + 1) % 256], addr)
    IN  [m |-> l.m, val |-> l.val]

\* Cpu::popw, as the pair of the machine after and the word pulled
PopW(m) ==
    LET addr == STACK_BASE + m.cpu.s + 1
        m0 == Overflow(m, m.cpu.s >= 254, "attempt to add with overflow")
    IN  LoadW([m0 EXCEPT !.cpu.s = (@ + 2) % 256], addr)

\* Cpu::nmi
Nmi(m) ==
    LET m1 == [m EXCEPT !.cpu.flags = Remove(@, BREAK)]
        m2 == PushW(m1, m1.cpu.pc)
        m3 == PushB(m2, m2.cpu.flags)
        m4 == [m3 EXCEPT !.cpu.flags = Insert(@, IRQ_DISABLE)]
        w == LoadW(m4, NMI_VECTOR)
    IN  [w.m EXCEPT !.cpu.pc = w.val]

\* an irq that is taken whatever the I flag says
IrqUnmasked(m) ==
    LET m1 == [m EXCEPT !.cpu.flags = Remove(@, BREAK)]
        m2 == PushW(m1, m1.cpu.pc)
        m3 == PushB(m2, m2.cpu.flags)
        m4 == [m3 EXCEPT !.cpu.flags = Insert(@, IRQ_DISABLE)]
        w == LoadW(m4, BRK_VECTOR)
    IN  [w.m EXCEPT !.cpu.pc = w.val]

\* Cpu::irq
Irq(m) ==
    IF Contains(m.cpu.flags, IRQ_DISABLE) THEN m
    ELSE LET m1 == [m EXCEPT !.cpu.flags = Remove(@, BREAK)]
             m2 == PushW(m1, m1.cpu.pc)
             m3 == PushB(m2, m2.cpu.flags)
             m4 == [m3 EXCEPT !.cpu.flags = Insert(@, IRQ_DISABLE)]
             w == LoadW(m4, BRK_VECTOR)
         IN  [w.m EXCEPT !.cpu.pc = w.val]

\* Cpu::loadb_bump_pc
LoadBBumpPc(m) ==
    LET l == CpuLoadB(m, m.cpu.pc)
        m1 == Overflow(l.m, m.cpu.pc = 65535, "attempt to add with overflow")
    IN  [m |-> [m1 EXCEPT !.cpu.pc = (@ + 1) % 65536], val |-> l.val]

\* Cpu::loadw_bump_pc
LoadWBumpPc(m) ==
    LET w == LoadW(m, m.cpu.pc)
        m1 == Overflow(w.m, m.cpu.pc >= 65534, "attempt to add with overflow")
    IN  [m |-> [m1 EXCEPT !.cpu.pc = (@ + 2) % 65536], val |-> w.val]

\* the Address enum
Absolute(addr) == [kind |-> "Absolute", val |-> addr]
Accumulator == [kind |-> "Accumulator", val |-> 0]
Immediate(val) == [kind |-> "Immediate", val |-> val]
Implied == [kind |-> "Implied", val |-> 0]
Indirect(addr) == [kind |-> "Indirect", val |-> addr]

\* the page-cross cycle of Cpu::abx, Cpu::aby and Cpu::izy
PageCross(m, extra, base, addr) ==
    IF extra /\ (base \div 256) # (addr \div 256)
    THEN [m EXCEPT !.cpu.cy = @ + 1]
    ELSE m

\* the addressing modes Cpu::abs, abx, aby, imm, imp, ind, izy, rel and zp0; each
\* gives the machine after and the Address
AddrMode(m, mode, extra) ==
    CASE mode = "abs" ->
            LET w == LoadWBumpPc(m) IN [m |-> w.m, addr |-> Absolute(w.val)]
      [] mode = "abx" ->
            LET w == LoadWBumpPc(m)
                addr == (w.val + m.cpu.x) % 65536
            IN  [m |-> PageCross(w.m, extra, w.val, addr), addr |-> Absolute(addr)]
      [] mode = "aby" ->
            LET w == LoadWBumpPc(m)
                addr == (w.val + m.cpu.y) % 65536
            IN  [m |-> PageCross(w.m, extra, w.val, addr), addr |-> Absolute(addr)]
      [] mode = "imm" ->
            LET b == LoadBBumpPc(m) IN [m |-> b.m, addr |-> Immediate(b.val)]
      [] mode = "ind" ->
            LET lo == LoadBBumpPc(m)
                hi == LoadBBumpPc(lo.m)
            IN  [m |-> hi.m, addr |-> Indirect(Word(lo.val, hi.val))]
      [] mode = "izy" ->
            LET b == LoadBBumpPc(m)
                lo == CpuLoadB(b.m, b.val)
                hi == CpuLoadB(lo.m, (b.val + 1) % 256)
                base == Word(lo.val, hi.val)
                addr == (base + m.cpu.y) % 65536
            IN  [m |-> PageCross(hi.m, extra, base, addr), addr |-> Absolute(addr)]
      [] mode = "rel" ->
            LET b == LoadBBumpPc(m)
            IN  [m |-> b.m, addr |-> Absolute((b.val + b.m.cpu.pc) % 65536)]
      [] mode = "zp0" ->
            LET b == LoadBBumpPc(m) IN [m |-> b.m, addr |-> Absolute(b.val)]
      [] OTHER -> [m |-> m, addr |-> Implied]

\* Cpu::addr_loadb
AddrLoadB(m, addr) ==
    IF addr.kind = "Absolute" THEN CpuLoadB(m, addr.val)
    ELSE IF addr.kind = "Accumulator" THEN [m |-> m, val |-> m.cpu.a]
    ELSE IF addr.kind = "Immediate" THEN [m |-> m, val |-> addr.val]
    ELSE IF addr.kind = "Indirect"
    THEN [m |-> [m EXCEPT !.panic = "Can't load from indirect address"], val |-> 0]
    ELSE [m |-> [m EXCEPT !.panic = "Can't load from implied address"], val |-> 0]

\* Cpu::addr_storeb
AddrStoreB(m, addr, val) ==
    IF addr.kind = "Absolute" THEN CpuStoreB(m, addr.val, val)
    ELSE IF addr.kind = "Accumulator" THEN [m EXCEPT !.cpu.a = val]
    ELSE [m EXCEPT !.panic = "Can't store to this address type"]

\* Cpu::rol
Rol(m, addr) ==
    The({The({The({[m1 EXCEPT !.cpu.flags =
                       Set(Set(Set(@, CARRY, l.val >= 128), NEGATIVE, result >= 128),
                           ZERO, m1.cpu.a = 0)] :
                   m1 \in {AddrStoreB(l.m, addr, result)}}) :
              result \in {((l.val * 2) % 256)
                            + (IF Contains(l.m.cpu.flags, CARRY) THEN 1 ELSE 0)}}) :
         l \in {AddrLoadB(m, addr)}})

\* Cpu::set_zn
SetZN(flags, val) ==
    LET z == IF val = 0 THEN Insert(flags, ZERO) ELSE Remove(flags, ZERO)
    IN  IF val >= 128 THEN Insert(z, NEGATIVE) ELSE Remove(z, NEGATIVE)

\* Cpu::branch_base
BranchBase(m, condition, addr) ==
    IF ~condition THEN m
    ELSE LET crossed == (m.cpu.pc \div 256) # (addr.val \div 256)
         IN  [m EXCEPT !.cpu.cy = @ + (IF crossed THEN 2 ELSE 1),
                       !.cpu.pc = addr.val]

\* an adc that ignores the carry flag
AdcNoCarry(m, addr) ==
    LET l == AddrLoadB(m, addr)
        a == l.m.cpu.a
        result == a + l.val
        overflow == BitAnd(BitAnd(Not16(BitXor(a, l.val)), BitXor(a, result)), 128) # 0
        f == Set(Set(l.m.cpu.flags, OVERFLOW, overflow), CARRY, result > 255)
    IN  [l.m EXCEPT !.cpu.a = result % 256, !.cpu.flags = SetZN(f, result % 256)]

\* Cpu::adc
Adc(m, addr) ==
    LET l == AddrLoadB(m, addr)
        a == l.m.cpu.a
        c == IF Contains(l.m.cpu.flags, CARRY) THEN 1 ELSE 0
        result == a + l.val + c
        overflow == BitAnd(BitAnd(Not16(BitXor(a, l.val)), BitXor(a, result)), 128) # 0
        f == Set(Set(l.m.cpu.flags, OVERFLOW, overflow), CARRY, result > 255)
    IN  [l.m EXCEPT !.cpu.a = result % 256, !.cpu.flags = SetZN(f, result % 256)]

\* Cpu::sbc
Sbc(m, addr) ==
    LET l == AddrLoadB(m, addr)
        a == l.m.cpu.a
        c == IF Contains(l.m.cpu.flags, CARRY) THEN 1 ELSE 0
        mx == BitXor(l.val, 255)
        result == a + mx + c
        overflow == BitAnd(BitAnd(BitXor(result, a), BitXor(result, mx)), 128) # 0
        f == Set(Set(l.m.cpu.flags, CARRY, BitAnd(result, 65280) # 0), OVERFLOW, overflow)
    IN  [l.m EXCEPT !.cpu.a = result % 256, !.cpu.flags = SetZN(f, result % 256)]

\* a jmp whose indirect target is always the word at the vector address
JmpNextPage(m, addr) ==
    IF addr.kind = "Indirect"
    THEN LET w == LoadW(m, addr.val)
         IN  [w.m EXCEPT !.cpu.pc = w.val]
    ELSE IF addr.kind = "Absolute" THEN [m EXCEPT !.cpu.pc = addr.val]
    ELSE [m EXCEPT !.panic = "JMP only supports absolute or indirect addresses"]

\* Cpu::jmp
Jmp(m, addr) ==
    IF addr.kind = "Indirect"
    THEN IF addr.val % 256 = 255
         THEN LET page == (addr.val \div 256) * 256
                  lo == CpuLoadB(m, page + 255)
                  hi == CpuLoadB(lo.m, page)
              IN  [hi.m EXCEPT !.cpu.pc = Word(lo.val, hi.val)]
         ELSE LET w == LoadW(m, addr.val)
              IN  [w.m EXCEPT !.cpu.pc = w.val]
    ELSE IF addr.kind = "Absolute" THEN [m EXCEPT !.cpu.pc = addr.val]
    ELSE [m EXCEPT !.panic = "JMP only supports absolute or indirect addresses"]

\* the operations Cpu::nop, lda, ldx, ldy, sta, stx, jmp, beq, bne, sei, cli,
\* txs, inx, adc, sbc and kil
Exec(m, fn, addr) ==
    CASE fn = "nop" -> m
      [] fn = "lda" ->
            LET l == AddrLoadB(m, addr)
            IN  [l.m EXCEPT !.cpu.a = l.val, !.cpu.flags = SetZN(@, l.val)]
      [] fn = "ldx" ->
            LET l == AddrLoadB(m, addr)
            IN  [l.m EXCEPT !.cpu.x = l.val, !.cpu.flags = SetZN(@, l.val)]
      [] fn = "ldy" ->
            LET l == AddrLoadB(m, addr)
            IN  [l.m EXCEPT !.cpu.y = l.val, !.cpu.flags = SetZN(@, l.val)]
      [] fn = "sta" -> AddrStoreB(m, addr, m.cpu.a)
      [] fn = "stx" -> AddrStoreB(m, addr, m.cpu.x)
      [] fn = "jmp" -> Jmp(m, addr)
      [] fn = "adc" -> Adc(m, addr)
      [] fn = "sbc" -> Sbc(m, addr)
      [] fn = "beq" -> BranchBase(m, Contains(m.cpu.flags, ZERO), addr)
      [] fn = "bne" -> BranchBase(m, ~Contains(m.cpu.flags, ZERO), addr)
      [] fn = "sei" -> [m EXCEPT !.cpu.flags = Insert(@, IRQ_DISABLE)]
      [] fn = "cli" -> [m EXCEPT !.cpu.flags = Remove(@, IRQ_DISABLE)]
      [] fn = "txs" -> [m EXCEPT !.cpu.s = m.cpu.x]
      [] fn = "inx" ->
            LET v == (m.cpu.x + 1) % 256
            IN  [m EXCEPT !.cpu.x = v, !.cpu.flags = SetZN(@, v)]
      [] OTHER -> [m EXCEPT !.panic = "CPU KIL"]

\* one row of the table of Cpu::step: ( op, fn, addr, cycles, extra )
Row(fn, mode, cycles, extra) ==
    [fn |-> fn, mode |-> mode, cycles |-> cycles, extra |-> extra]

\* the rows of the dispatch table of Cpu::step for the opcodes the programs
\* below use; every other opcode is given the row of 0x02 (kil)
OpTable(opcode) ==
    CASE opcode = 234 -> Row("nop", "imp", 2, FALSE)   \* 0xEA
      [] opcode = 169 -> Row("lda", "imm", 2, FALSE)   \* 0xA9
      [] opcode = 173 -> Row("lda", "abs", 4, FALSE)   \* 0xAD
      [] opcode = 189 -> Row("lda", "abx", 4, TRUE)    \* 0xBD
      [] opcode = 185 -> Row("lda", "aby", 4, TRUE)    \* 0xB9
      [] opcode = 177 -> Row("lda", "izy", 5, TRUE)    \* 0xB1
      [] opcode = 162 -> Row("ldx", "imm", 2, FALSE)   \* 0xA2
      [] opcode = 160 -> Row("ldy", "imm", 2, FALSE)   \* 0xA0
      [] opcode = 141 -> Row("sta", "abs", 4, FALSE)   \* 0x8D
      [] opcode = 133 -> Row("sta", "zp0", 3, FALSE)   \* 0x85
      [] opcode = 157 -> Row("sta", "abx", 5, FALSE)   \* 0x9D
      [] opcode = 142 -> Row("stx", "abs", 4, FALSE)   \* 0x8E
      [] opcode = 76  -> Row("jmp", "abs", 3, FALSE)   \* 0x4C
      [] opcode = 108 -> Row("jmp", "ind", 5, FALSE)   \* 0x6C
      [] opcode = 105 -> Row("adc", "imm", 2, FALSE)   \* 0x69
      [] opcode = 233 -> Row("sbc", "imm", 2, FALSE)   \* 0xE9
      [] opcode = 240 -> Row("beq", "rel", 2, TRUE)    \* 0xF0
      [] opcode = 208 -> Row("bne", "rel", 2, TRUE)    \* 0xD0
      [] opcode = 120 -> Row("sei", "imp", 2, FALSE)   \* 0x78
      [] opcode = 88  -> Row("cli", "imp", 2, FALSE)   \* 0x58
      [] opcode = 154 -> Row("txs", "imp", 2, FALSE)   \* 0x9A
      [] opcode = 232 -> Row("inx", "imp", 2, FALSE)   \* 0xE8
      [] OTHER -> Row("kil", "imp", 2, FALSE)

\* Cpu::step: the machine after, whether an opcode was fetched, and for a
\* fetch the base cost of the instruction and the cycles cy advanced by
CpuStep(m) ==
    IF m.cpu.busy > 0
    THEN [m |-> [m EXCEPT !.cpu.busy = @ - 1, !.cpu.cy = @ + 1],
          fetched |-> FALSE, base |-> 0, cy_added |-> 1]
    ELSE The({The({The({
            [m |-> [e EXCEPT !.cpu.busy = OpTable(f.val).cycles - 1, !.cpu.cy = @ + 1],
             fetched |-> TRUE, base |-> OpTable(f.val).cycles,
             cy_added |-> e.cpu.cy + 1 - m.cpu.cy] :
                e \in {Exec(a.m, OpTable(f.val).fn, a.addr)}}) :
                a \in {AddrMode(f.m, OpTable(f.val).mode, OpTable(f.val).extra)}}) :
                f \in {LoadBBumpPc(m)}})

----------------------------------------------------------------------------
(* The PPU's raster position and status flags (ppu/mod.rs) *)

\* a position step that never moves on to the next frame
PpuPositionStepSameFrame(p, rendering_enabled) ==
    IF p.pixel = 340
    THEN [p EXCEPT !.cycle = @ + 1, !.pixel = 0, !.scanline = (@ + 1) % 262]
    ELSE [p EXCEPT !.cycle = @ + 1, !.pixel = @ + 1]

\* a position step that shortens the pre-render scanline of every frame
PpuPositionStepAnyFrame(p, rendering_enabled) ==
    IF p.pixel = 340 \/ (p.pixel = 339 /\ rendering_enabled /\ p.scanline = 261)
    THEN IF p.scanline = 261
         THEN [p EXCEPT !.cycle = @ + 1, !.pixel = 0, !.scanline = 0, !.frame = @ + 1]
         ELSE [p EXCEPT !.cycle = @ + 1, !.pixel = 0, !.scanline = @ + 1]
    ELSE [p EXCEPT !.cycle = @ + 1, !.pixel = @ + 1]

\* PpuPosition::step
PpuPositionStep(p, rendering_enabled) ==
    LET is_last_scanline == p.scanline = 261
        is_odd_frame == p.frame % 2 = 1
        is_last_pixel ==
            \/ p.pixel = 340
            \/ p.pixel = 339 /\ rendering_enabled /\ is_last_scanline /\ is_odd_frame
    IN  IF is_last_pixel
        THEN IF is_last_scanline
             THEN [p EXCEPT !.cycle = @ + 1, !.pixel = 0, !.scanline = 0, !.frame = @ + 1]
             ELSE [p EXCEPT !.cycle = @ + 1, !.pixel = 0, !.scanline = @ + 1]
        ELSE [p EXCEPT !.cycle = @ + 1, !.pixel = @ + 1]

\* what the sprite pipeline of one Ppu::step may find, given the OAM, VRAM and
\* pattern data it works on (not part of this machine): hit, that sprite slot
\* 0 puts an opaque pixel over an opaque background pixel in output_pixel;
\* overflow, that Oam::sprite_eval returns true
NoPipeline == [hit |-> FALSE, overflow |-> FALSE]

\* the scanlines on which the sprites of the programs lie
SpriteLines == {239}

PipelineInputs(p) ==
    IF p.scanline \in SpriteLines /\ RenderingEnabled(p)
    THEN [hit : IF p.pixel < 256 /\ Bit(p.ppumask, 4) THEN BOOLEAN ELSE {FALSE},
          overflow : IF p.pixel > 64 /\ p.pixel <= 256 THEN BOOLEAN ELSE {FALSE}]
    ELSE {NoPipeline}

\* a "Flags" block that leaves the sprite-zero-hit flag set on the pre-render
\* scanline
PpuFlagsKeepHit(p, line, px) ==
    IF line = 241 /\ px = 1
    THEN [ppu |-> [p EXCEPT !.status = ToggleBit(@, 7, TRUE)],
          vblank_nmi |-> Bit(p.ppuctrl, 7), new_frame |-> FALSE]
    ELSE IF line = 261 /\ px = 1
    THEN [ppu |-> [p EXCEPT !.status = ToggleBit(ToggleBit(@, 5, FALSE), 7, FALSE)],
          vblank_nmi |-> FALSE, new_frame |-> TRUE]
    ELSE [ppu |-> p, vblank_nmi |-> FALSE, new_frame |-> FALSE]

\* the "Flags" block of Ppu::step
PpuFlags(p, line, px) ==
    IF line = 241 /\ px = 1
    THEN [ppu |-> [p EXCEPT !.status = ToggleBit(@, 7, TRUE)],
          vblank_nmi |-> Bit(p.ppuctrl, 7), new_frame |-> FALSE]
    ELSE IF line = 261 /\ px = 1
    THEN [ppu |-> [p EXCEPT !.status =
                        ToggleBit(ToggleBit(ToggleBit(@, 5, FALSE), 6, FALSE), 7, FALSE)],
          vblank_nmi |-> FALSE, new_frame |-> TRUE]
    ELSE [ppu |-> p, vblank_nmi |-> FALSE, new_frame |-> FALSE]

\* Ppu::step: the PPU after and the PpuResult.  The background and sprite
\* fetches, the shifters and the frame buffer are left out; what they decide
\* of the status flags comes in as pin.
PpuStep(p, pin) ==
    LET rendering_enabled == RenderingEnabled(p)
        line == p.scanline
        px == p.pixel
        is_render_line == line < 240
        is_prerender_line == line = 261
        is_idle_line == line >= 240 /\ ~is_prerender_line
        p1 == [p EXCEPT !.immediate_nmi = FALSE]
        \* output_pixel
        p2 == IF is_render_line /\ px < 256 /\ Bit(p.ppumask, 4) /\ pin.hit /\ line # 255
              THEN [p1 EXCEPT !.status = ToggleBit(@, 6, TRUE)]
              ELSE p1
        f == PpuFlags(p2, line, px)
        \* oam.reset_addr
        p3 == IF rendering_enabled /\ ~is_idle_line /\ px > 256 /\ px <= 320
              THEN [f.ppu EXCEPT !.oam_addr = 0]
              ELSE f.ppu
        \* oam.sprite_eval
        p4 == IF rendering_enabled /\ is_render_line /\ px > 64 /\ px <= 256 /\ pin.overflow
              THEN [p3 EXCEPT !.status = ToggleBit(@, 5, TRUE)]
              ELSE p3
        \* vtwx updates
        p5 == IF rendering_enabled /\ ~is_idle_line THEN VtwxUpdates(p4, line, px) ELSE p4
    IN  [ppu |-> PpuPositionStep(p5, rendering_enabled),
         result |-> [new_frame |-> f.new_frame,
                     scanline_irq |-> FALSE,
                     vblank_nmi |-> p.immediate_nmi \/ f.vblank_nmi]]

----------------------------------------------------------------------------
(* Sprite evaluation (ppu/oam.rs); m.oam is Oam.oam, m.ppu.oam_addr is      *)
(* Oam.addr, and oam2, oam2_index, n and tick_state are fields of m.ppu     *)

\* a TickState, with the value it carries
Tick(kind, val) == [kind |-> kind, val |-> val]

\* Oam::reset_oam2
ResetOam2(p) ==
    [p EXCEPT !.oam2 = [i \in 0..31 |-> 255], !.oam2_index = 0,
              !.tick_state = Tick("ReadYPosition", 0), !.n = 0]

\* Oam::in_range
InRange(current_scanline, value) ==
    current_scanline >= value /\ current_scanline < value + 8

\* Oam::increment_n
IncrementN(p) == [p EXCEPT !.n = (@ + 1) % 64]

\* self.oam[addr], self.tick_state = next(the byte): an index past the array
\* panics
OamRead(m, addr, next) ==
    IF addr > 255
    THEN [m EXCEPT !.panic = "index out of bounds"]
    ELSE [m EXCEPT !.ppu.tick_state = Tick(next, Get(m.oam, addr))]

\* self.oam2[addr] = val, self.tick_state = next
Oam2Write(m, addr, val, next) ==
    IF addr > 31
    THEN [m EXCEPT !.panic = "index out of bounds"]
    ELSE [m EXCEPT !.ppu.oam2[addr] = val, !.ppu.tick_state = Tick(next, 0)]

RECURSIVE SpriteEval(_, _)
\* Oam::sprite_eval: the machine after, and whether sprite overflow is
\* reported
SpriteEval(m, current_scanline) ==
    LET p == m.ppu
        kind == p.tick_state.kind
        val == p.tick_state.val
        base == p.oam_addr + p.n * 4
        quiet(after) == [m |-> after, ret |-> FALSE]
    IN  CASE kind = "ReadYPosition" -> quiet(OamRead(m, base, "WriteYPosition"))
          [] kind = "WriteYPosition" ->
                quiet(Oam2Write(m, p.oam2_index * 4, val,
                                IF InRange(current_scanline, val)
                                THEN "ReadTileIndex" ELSE "IncrementN"))
          [] kind = "ReadTileIndex" -> quiet(OamRead(m, base + 1, "WriteTileIndex"))
          [] kind = "WriteTileIndex" ->
                quiet(Oam2Write(m, p.oam2_index * 4 + 1, val, "ReadAttributes"))
          [] kind = "ReadAttributes" -> quiet(OamRead(m, base + 2, "WriteAttributes"))
          [] kind = "WriteAttributes" ->
                quiet(Oam2Write(m, p.oam2_index * 4 + 2, val, "ReadXPosition"))
          [] kind = "ReadXPosition" -> quiet(OamRead(m, base + 3, "WriteXPosition"))
          [] kind = "WriteXPosition" ->
                LET w == Oam2Write(m, p.oam2_index * 4 + 3, val, "IncrementN")
                IN  quiet(IF w.panic # "" THEN w ELSE [w EXCEPT !.ppu.oam2_index = @ + 1])
          [] kind = "IncrementN" ->
                LET q == IncrementN(p)
                    next == IF q.n = 0 THEN Tick("BusyLoop", 0)
                            ELSE IF q.oam2_index < 7 THEN Tick("ReadYPosition", 0)
                            ELSE Tick("OverflowDetection", 0)
                    \* the call made for the bookkeeping; its result is dropped
                    inner == SpriteEval([m EXCEPT !.ppu = [q EXCEPT !.tick_state = next]],
                                        current_scanline)
                IN  quiet(inner.m)
          [] kind = "OverflowDetection" ->
                IF base + val > 255
                THEN quiet([m EXCEPT !.panic = "index out of bounds"])
                ELSE IF InRange(current_scanline, Get(m.oam, base + val))
                THEN [m |-> [m EXCEPT !.ppu.tick_state = Tick("Phase3ExtraRead", 1)],
                      ret |-> TRUE]
                ELSE IF val < 3
                THEN quiet([m EXCEPT !.ppu.tick_state = Tick("OverflowDetection", val + 1)])
                ELSE LET q == IncrementN(p)
                     IN  quiet([m EXCEPT !.ppu =
                                  [q EXCEPT !.tick_state =
                                      IF q.n = 0 THEN Tick("BusyLoop", 0)
                                      ELSE Tick("OverflowDetection", 0)]])
          [] kind = "Phase3ExtraRead" ->
                IF val < 4
                THEN quiet([m EXCEPT !.ppu.tick_state = Tick("Phase3ExtraRead", val + 1)])
                ELSE quiet([m EXCEPT !.ppu = [IncrementN(p) EXCEPT
                                                !.tick_state = Tick("BusyLoop", 0)]])
          [] OTHER -> quiet([m EXCEPT !.ppu = IncrementN(p)])

----------------------------------------------------------------------------
(* Pixel output (ppu/mod.rs).  What the shifters give for a pixel is sh:    *)
(* sprites, the patterns SpriteShifter::tick returns for the eight slots;   *)
(* below, the priority bit of the slots' attribute latch; bg, the pattern   *)
(* BackgroundShifter::pattern_val returns.  A pattern of 0 is transparent.  *)

NoShift == [sprites |-> <<0, 0, 0, 0, 0, 0, 0, 0>>, below |-> FALSE, bg |-> 0]

\* Ppu::sprite_pixel: None, or Some with the priority and the index of the
\* first slot whose pattern is not 0
SpritePixel(p, px, sh) ==
    LET sprites_enabled == Bit(p.ppumask, 4)
        leftmost_shown == ~Bit(p.ppumask, 2)
        opaque == {i \in 1..8 : sh.sprites[i] # 0}
    IN  IF ~sprites_enabled \/ (px < 8 /\ ~leftmost_shown) \/ opaque = {}
        THEN [some |-> FALSE, below |-> FALSE, idx |-> 0]
        ELSE [some |-> TRUE, below |-> sh.below,
              idx |-> (CHOOSE i \in opaque : \A j \in opaque : i <= j) - 1]

\* Ppu::background_pixel: whether it is Some
BackgroundPixel(p, px, sh) ==
    IF px < 8 /\ Bit(p.ppumask, 3) THEN FALSE ELSE sh.bg # 0

\* Ppu::output_pixel: whether it sets the sprite-zero-hit flag
OutputPixel(p, line, px, sh) ==
    LET sprite_pixel == SpritePixel(p, px, sh)
        bg_pixel == BackgroundPixel(p, px, sh)
    IN  CASE ~bg_pixel /\ ~sprite_pixel.some -> FALSE
          [] bg_pixel /\ sprite_pixel.some /\ ~sprite_pixel.below ->
                sprite_pixel.idx = 0 /\ line # 255
          [] ~bg_pixel /\ sprite_pixel.some -> FALSE
          [] bg_pixel /\ sprite_pixel.some -> sprite_pixel.idx = 0 /\ line # 255
          [] OTHER -> FALSE

\* Rgb::from_byte: the index into the 64 COLORS, or the panic
RgbFromByte(m, byte) ==
    IF byte >= 64 /\ m.panic = ""
    THEN [m EXCEPT !.panic = "Attempted to load invalid color"]
    ELSE m

\* the palette bytes Ppu::output_pixel takes to Rgb::from_byte, and the one it
\* writes to the screen; at gives the attribute bits of the pixel: sprite,
\* SpriteShifter::palette of the slot put out, and bg,
\* BackgroundShifter::attr_val
OutputColour(m, line, px, sh, at) ==
    LET p == m.ppu
        sprite_pixel == SpritePixel(p, px, sh)
        bg_pixel == BackgroundPixel(p, px, sh)
        sprite_colour ==
            VramPeekB(p, BitOr(BitOr(16144, at.sprite * 4),
                               sh.sprites[sprite_pixel.idx + 1]))
        bg_colour == VramPeekB(p, BitOr(BitOr(16128, at.bg * 4), sh.bg))
        global_bg == VramPeekB(p, 16128)
        m1 == IF sprite_pixel.some THEN RgbFromByte(m, sprite_colour) ELSE m
        m2 == IF bg_pixel THEN RgbFromByte(m1, bg_colour) ELSE m1
        m3 == IF ~bg_pixel /\ ~sprite_pixel.some THEN RgbFromByte(m2, global_bg) ELSE m2
    IN  [m |-> m3,
         colour |-> CASE ~bg_pixel /\ ~sprite_pixel.some -> global_bg
                      [] bg_pixel /\ sprite_pixel.some /\ ~sprite_pixel.below -> sprite_colour
                      [] ~bg_pixel /\ sprite_pixel.some -> sprite_colour
                      [] OTHER -> bg_colour]

----------------------------------------------------------------------------
(* The APU frame counter (audio/frame_counter.rs, audio/apu.rs) *)

FrameCounterResult(q, h, i) == [quarter_frame |-> q, half_frame |-> h, irq |-> i]

\* a step4 that clocks the half frame on the third point instead of the
\* fourth
Step4HalfOnThree(a) ==
    LET cycle == a.cycle % (CLOCK_FOUR + 1)
        irq_flag == IF cycle = CLOCK_FOUR /\ ~a.irq_inhibit THEN TRUE ELSE a.irq_flag
    IN  [apu |-> [a EXCEPT !.cycle = cycle, !.irq_flag = irq_flag],
         result |->
            FrameCounterResult(cycle \in {CLOCK_ONE, CLOCK_TWO, CLOCK_THREE, CLOCK_FOUR},
                               cycle \in {CLOCK_TWO, CLOCK_THREE}, irq_flag)]

\* a step5 that keeps the fourth point of the 4-step sequence
Step5WithFour(a, clock_quarter_half) ==
    LET cycle == a.cycle % (CLOCK_FIVE + 1)
        irq == a.irq_flag
    IN  [apu |-> [a EXCEPT !.cycle = cycle],
         result |->
            CASE cycle \in {CLOCK_ONE, CLOCK_THREE} ->
                    FrameCounterResult(TRUE, clock_quarter_half, irq)
              [] cycle \in {CLOCK_TWO, CLOCK_FOUR, CLOCK_FIVE} ->
                    FrameCounterResult(TRUE, TRUE, irq)
              [] OTHER -> FrameCounterResult(clock_quarter_half, clock_quarter_half, irq)]

\* FrameCounter::step4
Step4(a) ==
    LET cycle == a.cycle % (CLOCK_FOUR + 1)
        irq_flag == IF cycle = CLOCK_FOUR /\ ~a.irq_inhibit THEN TRUE ELSE a.irq_flag
    IN  [apu |-> [a EXCEPT !.cycle = cycle, !.irq_flag = irq_flag],
         result |->
            CASE cycle = CLOCK_ONE -> FrameCounterResult(TRUE, FALSE, irq_flag)
              [] cycle = CLOCK_TWO -> FrameCounterResult(TRUE, TRUE, irq_flag)
              [] cycle = CLOCK_THREE -> FrameCounterResult(TRUE, FALSE, irq_flag)
              [] cycle = CLOCK_FOUR -> FrameCounterResult(TRUE, TRUE, irq_flag)
              [] OTHER -> FrameCounterResult(FALSE, FALSE, irq_flag)]

\* FrameCounter::step5
Step5(a, clock_quarter_half) ==
    LET cycle == a.cycle % (CLOCK_FIVE + 1)
        irq == a.irq_flag
    IN  [apu |-> [a EXCEPT !.cycle = cycle],
         result |->
            CASE cycle = CLOCK_ONE -> FrameCounterResult(TRUE, clock_quarter_half, irq)
              [] cycle = CLOCK_TWO -> FrameCounterResult(TRUE, TRUE, irq)
              [] cycle = CLOCK_THREE -> FrameCounterResult(TRUE, clock_quarter_half, irq)
              [] cycle = CLOCK_FIVE -> FrameCounterResult(TRUE, TRUE, irq)
              [] OTHER -> FrameCounterResult(clock_quarter_half, clock_quarter_half, irq)]

\* a step that resets the sequencer one step early
FrameCounterStepEarly(a) ==
    LET resetting == a.reset_countdown = 2
        a1 == [a EXCEPT !.cycle = IF resetting THEN 0 ELSE @ + 1,
                        !.reset_countdown = IF @ > 0 THEN @ - 1 ELSE @]
    IN  IF a.mode = "FourStep" THEN Step4(a1)
        ELSE Step5(a1, resetting)

\* FrameCounter::step
FrameCounterStep(a) ==
    LET resetting == a.reset_countdown = 1
        a1 == [a EXCEPT !.cycle = IF resetting THEN 0 ELSE @ + 1,
                        !.reset_countdown = IF @ > 0 THEN @ - 1 ELSE @]
    IN  IF a.mode = "FourStep" THEN Step4(a1)
        ELSE Step5(a1, resetting)

\* Apu::step: the APU after and the ApuResult (the channels' clocks are not
\* part of this machine)
ApuStep(a) ==
    LET s == FrameCounterStep([a EXCEPT !.even_cycle = ~@])
    IN  [apu |-> s.apu, irq |-> s.result.irq]

----------------------------------------------------------------------------
(* The orchestrator (nes.rs) *)

RECURSIVE PpuLoop(_, _, _)
\* the loop "for _ in 0..3" of Nes::step, from its i-th pass on; st carries
\* the machine, the calls made so far and new_frame
PpuLoop(st, pins, i) ==
    IF i > Len(pins) THEN st
    ELSE The({The({PpuLoop(next, pins, i + 1) :
            next \in {[m |-> IF r.result.vblank_nmi THEN Nmi([st.m EXCEPT !.ppu = r.ppu])
                             ELSE IF r.result.scanline_irq
                             THEN Irq([st.m EXCEPT !.ppu = r.ppu])
                             ELSE [st.m EXCEPT !.ppu = r.ppu],
                       calls |-> st.calls \o
                                   (IF r.result.vblank_nmi THEN <<"ppu.step", "cpu.nmi">>
                                    ELSE IF r.result.scanline_irq
                                    THEN <<"ppu.step", "cpu.irq">>
                                    ELSE <<"ppu.step">>),
                       new_frame |-> st.new_frame \/ r.result.new_frame,
                       nmi_at |-> IF r.result.vblank_nmi THEN st.nmi_at \o <<i>>
                                  ELSE st.nmi_at]}}) :
            r \in {PpuStep(st.m.ppu, pins[i])}})

\* a Nes::step that delivers the NMI only after its three PPU steps
NesStepLateNmi(m, pins) ==
    LET c == CpuStep(m)
        a == ApuStep(c.m.apu)
        p1 == PpuStep(c.m.ppu, pins[1])
        p2 == PpuStep(p1.ppu, pins[2])
        p3 == PpuStep(p2.ppu, pins[3])
        raised == {i \in 1..3 : <<p1, p2, p3>>[i].result.vblank_nmi}
        m1 == [c.m EXCEPT !.apu = a.apu, !.ppu = p3.ppu]
    IN  [m |-> IF raised # {} THEN Nmi(m1) ELSE m1,
         calls |-> <<"cpu.step", "apu.step", "ppu.step", "ppu.step", "ppu.step">>
                     \o (IF raised # {} THEN <<"cpu.nmi">> ELSE <<>>),
         new_frame |-> p1.result.new_frame \/ p2.result.new_frame \/ p3.result.new_frame,
         nmi_at |-> IF raised # {} THEN <<CHOOSE i \in raised : TRUE>> ELSE <<>>,
         cpu |-> c, apu_irq |-> a.irq]

\* Nes::step: pins are the sprite pipeline's findings in its three PPU steps
NesStep(m, pins) ==
    The({The({The({
        [m |-> st.m, calls |-> st.calls, new_frame |-> st.new_frame,
         nmi_at |-> st.nmi_at, cpu |-> c, apu_irq |-> a.irq] :
            st \in {PpuLoop([m |-> [c.m EXCEPT !.apu = a.apu],
                             calls |-> <<"cpu.step", "apu.step">>,
                             new_frame |-> FALSE, nmi_at |-> <<>>], pins, 1)}}) :
            a \in {ApuStep(c.m.apu)}}) :
            c \in {CpuStep(m)}})

----------------------------------------------------------------------------
(* Cartridges: 32 KiB PRG images, mapped at 0x8000..0xFFFF *)

\* the bytes of code, placed at CPU address at
Seg(at, code) == [k \in {at - 32768 + i - 1 : i \in 1..Len(code)} |-> code[k - (at - 32768) + 1]]

\* the three vectors at 0xFFFA, 0xFFFC and 0xFFFE
Vectors(nmi, reset, irq) ==
    Seg(NMI_VECTOR, <<nmi % 256, nmi \div 256, reset % 256, reset \div 256,
                      irq % 256, irq \div 256>>)

\* 8000 LDX #$01; LDA $80FF,X (crosses a page); BEQ +2 (taken); NOP; NOP;
\* 8009 JMP $8000
ProgPageCross ==
    Seg(32768, <<162, 1, 189, 255, 128, 240, 2, 234, 234, 76, 0, 128>>)
        @@ Vectors(32768, 32768, 32768)

\* 8000 LDA #$00; JMP $80FC; 80FC BEQ +2 (taken, into the next page);
\* 8100 BNE +5 (not taken); JMP $8000
ProgBranch ==
    Seg(32768, <<169, 0, 76, 252, 128>>) @@ Seg(33020, <<240, 2>>)
        @@ Seg(33024, <<208, 5, 76, 0, 128>>) @@ Vectors(32768, 32768, 32768)

\* 8000 LDA #$02; STA $0200; STA $4014 (fetched at an even cy); 8008 JMP $8008
ProgDmaEven ==
    Seg(32768, <<169, 2, 141, 0, 2, 141, 20, 64, 76, 8, 128>>)
        @@ Vectors(32768, 32768, 32768)

\* 8000 LDA #$02; STA $10; STA $4014 (fetched at an odd cy); 8007 JMP $8007
ProgDmaOdd ==
    Seg(32768, <<169, 2, 133, 16, 141, 20, 64, 76, 7, 128>>)
        @@ Vectors(32768, 32768, 32768)

\* 8000 LDA #$80; 8002 STA $2000; JMP $8002; the NMI handler 8010 JMP $8010
ProgNmi ==
    Seg(32768, <<169, 128, 141, 0, 32, 76, 2, 128>>) @@ Seg(32784, <<76, 16, 128>>)
        @@ Vectors(32784, 32768, 32768)

\* 8000 LDA #$80; LDX #$00; NOP; NOP; 8006 STA $2000; STX $2000; JMP $8006:
\* the NMI is enabled and disabled in turn; the NMI handler 8010 JMP $8010
ProgNmiToggle ==
    Seg(32768, <<169, 128, 162, 0, 234, 234, 141, 0, 32, 142, 0, 32, 76, 6, 128>>)
        @@ Seg(32784, <<76, 16, 128>>) @@ Vectors(32784, 32768, 32768)

\* 8000 CLI; 8001 JMP $8001; the IRQ handler 8010 JMP $8010
ProgIrq ==
    Seg(32768, <<88, 76, 1, 128>>) @@ Seg(32784, <<76, 16, 128>>)
        @@ Vectors(32768, 32768, 32784)

----------------------------------------------------------------------------
(* Construction *)

\* Cpu::new followed by Cpu::reset, as Nes::new does, for the image r
CpuNew(r) ==
    [a |-> 0, x |-> 0, y |-> 0, flags |-> 36, s |-> 253,
     pc |-> Word(Get(r, RESET_VECTOR % 32768), Get(r, (RESET_VECTOR + 1) % 32768)),
     cy |-> 0, busy |-> 0]

\* Ppu::new
PpuNew ==
    [cycle |-> 0, frame |-> 0, pixel |-> 0, scanline |-> 0,
     ppuctrl |-> 0, ppumask |-> 0, status |-> 0, last_write |-> 0,
     immediate_nmi |-> FALSE, oam_addr |-> 0,
     oam2 |-> [i \in 0..31 |-> 0], oam2_index |-> 0, n |-> 0,
     tick_state |-> Tick("ReadYPosition", 0),
     t |-> 0, v |-> 0, w |-> FALSE, x |-> 0,
     nametables |-> EmptyMem, palette |-> EmptyMem, ppu_data_buffer |-> 0]

\* Apu::new with FrameCounter::new
ApuNew ==
    [even_cycle |-> TRUE, cycle |-> 0, irq_flag |-> FALSE, irq_inhibit |-> FALSE,
     mode |-> "FourStep", reset_countdown |-> 0,
     square1 |-> SquareNew(1), square2 |-> SquareNew(2),
     triangle |-> [length |-> LengthCounterNew], noise |-> [length |-> LengthCounterNew]]

\* what the history remembers before anything ran
HistNew ==
    [fetched |-> FALSE, fetch_at |-> 0, cost |-> 0, busy_after |-> 0,
     gap |-> 0, gap_cost |-> 0, dma_at |-> 0, dma_len |-> 0,
     irq_owed |-> FALSE, irq_missed |-> FALSE,
     nmi_at |-> <<>>, new_frame |-> FALSE,
     frame_start |-> 0, frame_len |-> 0, dot339 |-> FALSE, cleared |-> {},
     result |-> [new_frame |-> FALSE, scanline_irq |-> FALSE, vblank_nmi |-> FALSE],
     pre |-> [cpu |-> CpuNew(EmptyMem), ram |-> EmptyMem],
     addr |-> Implied, val |-> 0, overflow_at |-> {}, shifted |-> NoShift,
     port |-> 0, vaddr |-> 0, loaded |-> 0, colour |-> 0,
     fc |-> FrameCounterResult(FALSE, FALSE, FALSE), update_at |-> 0,
     input |-> [magic |-> <<>>, sizes |-> <<0, 0>>, flags |-> <<0, 0>>, len |-> 0],
     ticks |-> 0, sends |-> 0, drained |-> 0, sample |-> "", since |-> 8]

\* the console after Nes::new with the cartridge r
PowerOn(r) ==
    /\ rom = r
    /\ cpu = CpuNew(r)
    /\ ram = EmptyMem
    /\ ppu = PpuNew
    /\ oam = EmptyMem
    /\ apu = ApuNew
    /\ panic = ""
    /\ op = "new"
    /\ steps = 0
    /\ calls = <<>>
    /\ hist = HistNew

----------------------------------------------------------------------------
(* Actions *)

\* every pipeline finding
AllPins == [hit : BOOLEAN, overflow : BOOLEAN]

\* the findings possible in the three PPU steps that start at p
Pins3(p) ==
    IF RenderingEnabled(p) /\ p.scanline \in SpriteLines \cup {s - 1 : s \in SpriteLines}
    THEN {<<a, b, c>> : a \in AllPins, b \in AllPins, c \in AllPins}
    ELSE {<<NoPipeline, NoPipeline, NoPipeline>>}

\* a panic ends the process: nothing runs after it
Halt(msg) ==
    /\ panic' = msg
    /\ op' = "panic"
    /\ UNCHANGED <<rom, overflow_checks, gamepad_0, driver, cpu, ram, ppu, oam, apu, steps, calls, hist>>

\* the history after the n-th step, whose Cpu::step gave c: cost is the
\* instruction's base cost plus the cycles its page cross or taken branch
\* added to cy; gap is the number of steps since the fetch before this one
HistCpu(h, c, n) ==
    IF ~c.fetched THEN [h EXCEPT !.fetched = FALSE]
    ELSE [h EXCEPT
            !.fetched = TRUE,
            !.gap = IF h.fetch_at > 0 THEN n - h.fetch_at ELSE 0,
            !.gap_cost = h.cost,
            !.fetch_at = n,
            !.cost = c.base + (c.cy_added - 1 - c.m.dma),
            !.busy_after = c.m.cpu.busy,
            !.dma_at = IF c.m.dma > 0 THEN n ELSE @,
            !.dma_len = IF c.m.dma > 0 THEN c.m.dma ELSE @]

\* one call of Cpu::step on its own
CpuStepA ==
    /\ panic = ""
    /\ steps < MaxCpuSteps
    /\ \E c \in {CpuStep(Machine)} :
           IF c.m.panic # "" THEN Halt(c.m.panic)
           ELSE /\ cpu' = c.m.cpu
                /\ ram' = c.m.ram
                /\ ppu' = c.m.ppu
                /\ oam' = c.m.oam
                /\ apu' = c.m.apu
                /\ op' = "Cpu::step"
                /\ steps' = steps + 1
                /\ calls' = <<"cpu.step">>
                /\ hist' = HistCpu(hist, c, steps + 1)
                /\ UNCHANGED <<rom, overflow_checks, gamepad_0, driver, panic>>

\* one call of Nes::step
NesStepA ==
    /\ panic = ""
    /\ steps < MaxSteps
    /\ \E c \in {CpuStep(Machine)} : \E pins \in Pins3(c.m.ppu) :
       \E r \in {NesStep(Machine, pins)} :
         LET h == HistCpu(hist, r.cpu, steps + 1)
             interrupted == \E i \in 1..Len(r.calls) : r.calls[i] = "cpu.irq"
             asserted == r.apu_irq /\ ~Contains(r.cpu.m.cpu.flags, IRQ_DISABLE)
         IN  IF r.m.panic # "" THEN Halt(r.m.panic)
             ELSE /\ cpu' = r.m.cpu
                  /\ ram' = r.m.ram
                  /\ ppu' = r.m.ppu
                  /\ oam' = r.m.oam
                  /\ apu' = r.m.apu
                  /\ op' = "Nes::step"
                  /\ steps' = steps + 1
                  /\ calls' = r.calls
                  /\ hist' = [h EXCEPT
                                !.irq_missed = @ \/ (r.cpu.fetched /\ hist.irq_owed),
                                !.irq_owed = (@ \/ asserted) /\ ~interrupted,
                                !.nmi_at = r.nmi_at,
                                !.new_frame = r.new_frame]
                  /\ UNCHANGED <<rom, overflow_checks, gamepad_0, driver, panic>>

NesProgs == {ProgPageCross, ProgDmaEven, ProgNmi, ProgNmiToggle, ProgIrq}

InitNes ==
    /\ overflow_checks \in BOOLEAN
    /\ gamepad_0 = InputNew
    /\ driver = DriverNew
    /\ \E r \in NesProgs : PowerOn(r)

SpecNes == InitNes /\ [][NesStepA]_vars

CpuProgs == {ProgPageCross, ProgBranch, ProgDmaEven, ProgDmaOdd}

InitCpu ==
    /\ overflow_checks \in BOOLEAN
    /\ gamepad_0 = InputNew
    /\ driver = DriverNew
    /\ \E r \in CpuProgs : PowerOn(r)

SpecCpu == InitCpu /\ [][CpuStepA]_vars

----------------------------------------------------------------------------
(* C2 *)

\* C2: the PPU's cycle counter is three times the CPU's cycle counter, and
\* the CPU's cycle counter is the number of Nes::step calls made, whatever
\* the program does (page crossings, taken branches, OAM DMA)
C2_CycleLockstep == ppu.cycle = 3 * cpu.cy /\ cpu.cy = steps

----------------------------------------------------------------------------
(* C1 *)

\* the calls of the i-th PPU sub-step, given the sub-steps that raised an NMI
SubStepCalls(raised, i) ==
    IF \E k \in 1..Len(raised) : raised[k] = i
    THEN <<"ppu.step", "cpu.nmi">>
    ELSE <<"ppu.step">>

\* C1: every Nes::step makes exactly one CPU step, then one APU step, then
\* three PPU steps, and an NMI raised by a PPU step is delivered to the CPU
\* before the next PPU step; so the PPU advances three cycles, the APU one,
\* and after a step that raised an NMI the CPU is at the NMI handler
C1_StepOrder ==
    [][op' = "Nes::step" =>
        /\ calls' = <<"cpu.step", "apu.step">> \o SubStepCalls(hist'.nmi_at, 1)
                        \o SubStepCalls(hist'.nmi_at, 2) \o SubStepCalls(hist'.nmi_at, 3)
        /\ ppu'.cycle = ppu.cycle + 3
        /\ apu'.even_cycle = ~apu.even_cycle
        /\ steps' = steps + 1
        /\ hist'.nmi_at # <<>> =>
              cpu'.pc = Word(PrgLoadB(NMI_VECTOR), PrgLoadB(NMI_VECTOR + 1))
      ]_vars

\* an NMI was raised by the first PPU sub-step and delivered before the second
C1_Witness ==
    /\ op = "Nes::step"
    /\ calls = <<"cpu.step", "apu.step", "ppu.step", "cpu.nmi", "ppu.step", "ppu.step">>

\* an NMI was raised by the last PPU sub-step
C1_WitnessLast ==
    /\ op = "Nes::step"
    /\ calls = <<"cpu.step", "apu.step", "ppu.step", "ppu.step", "ppu.step", "cpu.nmi">>

----------------------------------------------------------------------------
(* C3, C4, C10 *)

\* C3: an instruction of total cost c (its base cost, plus 1 for a page
\* crossing, plus 1 for a taken branch, plus 2 for a taken branch into
\* another page) occupies exactly c Cpu::step calls: the step that fetches
\* it leaves busy at c - 1, and the next opcode is fetched c steps later
C3_CostOccupied ==
    op = "Cpu::step" /\ hist.fetched =>
        /\ hist.busy_after = hist.cost - 1
        /\ hist.gap > 0 => hist.gap = hist.gap_cost

\* C4: after a store to 0x4014 no opcode is fetched for 513 further steps
\* (514 when the store's cycle count was odd)
C4_DmaBlocks ==
    op = "Cpu::step" /\ hist.fetched /\ hist.dma_at > 0 /\ steps > hist.dma_at =>
        steps - hist.dma_at > hist.dma_len

\* C10: when the APU's frame sequencer asserts its IRQ during a Nes::step
\* while the CPU's I flag is clear, the CPU is interrupted before it fetches
\* its next opcode
C10_ApuIrqDelivered == ~hist.irq_missed

----------------------------------------------------------------------------
(* The PPU on its own: PPU steps, and the CPU's accesses to its ports *)

\* the raster positions <<scanline, pixel>> at which the CPU reaches the
\* ports: the start of a frame, the pixel after the vblank flag is set, and
\* the pixel at which the pre-render scanline may end
AccessPoints == {<<0, 0>>, <<241, 2>>, <<261, 339>>}

\* the stores the CPU makes: <<address, value>>; NMI generation on, rendering
\* (background and sprites) on, rendering off
PortStores == {<<8192, 128>>, <<8193, 24>>, <<8193, 0>>}

\* the status flags, by bit
StatusFlags == {5, 6, 7}

\* one call of Ppu::step
PpuStepA ==
    /\ panic = ""
    /\ ppu.cycle < MaxPpuCycle
    /\ \E pin \in PipelineInputs(ppu) : \E r \in {PpuStep(ppu, pin)} :
         LET ends == r.ppu.frame # ppu.frame
         IN  /\ ppu' = r.ppu
             /\ op' = "Ppu::step"
             /\ hist' = [hist EXCEPT
                           !.result = r.result,
                           !.cleared = {b \in StatusFlags :
                                           Bit(ppu.status, b) /\ ~Bit(r.ppu.status, b)},
                           !.dot339 = IF ppu.scanline = 261 /\ ppu.pixel = 339
                                      THEN RenderingEnabled(ppu)
                                      ELSE IF ppu.scanline = 0 THEN FALSE ELSE @,
                           !.frame_len = IF ends THEN r.ppu.cycle - hist.frame_start ELSE @,
                           !.frame_start = IF ends THEN r.ppu.cycle ELSE @]
             /\ UNCHANGED <<rom, overflow_checks, gamepad_0, driver, cpu, ram, oam, apu, panic, steps, calls>>

\* the CPU stores to a PPU port (Ppu::storeb)
PpuStoreA ==
    /\ panic = ""
    /\ <<ppu.scanline, ppu.pixel>> \in AccessPoints
    /\ \E w \in PortStores : \E m \in {PpuStoreB(Machine, w[1], w[2])} :
         IF m.panic # "" THEN Halt(m.panic)
         ELSE /\ ppu' = m.ppu
              /\ oam' = m.oam
              /\ op' = "Ppu::storeb"
              /\ UNCHANGED <<rom, overflow_checks, gamepad_0, driver, cpu, ram, apu, panic, steps, calls, hist>>

\* the CPU loads the status port (Ppu::loadb of 0x2002)
PpuLoadA ==
    /\ panic = ""
    /\ <<ppu.scanline, ppu.pixel>> \in AccessPoints
    /\ ppu' = PpuLoadFx(Machine, 8194).ppu
    /\ op' = "Ppu::loadb"
    /\ UNCHANGED <<rom, overflow_checks, gamepad_0, driver, cpu, ram, oam, apu, panic, steps, calls, hist>>

\* no arithmetic of the PPU's step and ports can overflow, so the build
\* profile makes no difference here
InitPpu ==
    /\ overflow_checks = TRUE
    /\ gamepad_0 = InputNew
    /\ driver = DriverNew
    /\ PowerOn(ProgNmi)

NextPpu == PpuStepA \/ PpuStoreA \/ PpuLoadA

SpecPpu == InitPpu /\ [][NextPpu]_vars

----------------------------------------------------------------------------
(* C5, C6, C7 *)

\* C5: the PPU step taken at (241, 1) sets the vblank flag and, if NMI
\* generation is enabled, signals an NMI; the step taken at (261, 1) clears
\* the vblank, sprite-zero-hit and sprite-overflow flags and reports
\* new_frame; no step at another position reports new_frame
C5_VblankFlags ==
    [][op' = "Ppu::step" =>
        /\ ppu.scanline = 241 /\ ppu.pixel = 1 =>
              /\ Bit(ppu'.status, 7)
              /\ Bit(ppu.ppuctrl, 7) => hist'.result.vblank_nmi
        /\ ppu.scanline = 261 /\ ppu.pixel = 1 =>
              /\ \A b \in StatusFlags : ~Bit(ppu'.status, b)
              /\ hist'.result.new_frame
        /\ hist'.result.new_frame => ppu.scanline = 261 /\ ppu.pixel = 1
      ]_vars

\* the step at (261, 1) of the second frame cleared all three flags
C5_Witness ==
    /\ op = "Ppu::step"
    /\ ppu.frame = 1 /\ ppu.scanline = 261 /\ ppu.pixel = 2
    /\ hist.cleared = StatusFlags
    /\ hist.result.new_frame

\* the step at (241, 1) signalled an NMI
C5_WitnessNmi ==
    /\ op = "Ppu::step"
    /\ ppu.scanline = 241 /\ ppu.pixel = 2
    /\ hist.result.vblank_nmi /\ Bit(ppu.status, 7)

C7_FrameLength ==
    [][ppu'.frame # ppu.frame =>
        hist'.frame_len = IF ppu.frame % 2 = 1 /\ hist'.dot339 THEN 341 * 262 - 1
                          ELSE 341 * 262
      ]_vars

\* an odd frame ended one step short
C7_Witness ==
    /\ op = "Ppu::step"
    /\ ppu.frame = 2 /\ ppu.scanline = 0 /\ ppu.pixel = 0
    /\ hist.dot339 /\ hist.frame_len = 341 * 262 - 1

\* an even frame with rendering enabled at the end of its pre-render scanline
\* ran its full length
C7_WitnessEven ==
    /\ op = "Ppu::step"
    /\ ppu.frame = 1 /\ ppu.scanline = 0 /\ ppu.pixel = 0
    /\ hist.dot339 /\ hist.frame_len = 341 * 262

----------------------------------------------------------------------------
(* The CPU's interrupt entry points on their own *)

\* a cartridge whose three vectors differ in both bytes (0x9012, 0x8000,
\* 0xA034)
ProgVectors == Vectors(36882, 32768, 41012)

\* the registers the interrupt arrives at
IntPcs == {32768, 4660, 65535}
IntSps == {0, 1, 2, 3, 253, 255}
IntFlags == {32, 36, 48, 52, 195, 255}

InitInt ==
    /\ overflow_checks \in BOOLEAN
    /\ gamepad_0 = InputNew
    /\ driver = DriverNew
    /\ rom = ProgVectors
    /\ \E pc \in IntPcs, s \in IntSps, flags \in IntFlags :
          cpu = [CpuNew(ProgVectors) EXCEPT !.pc = pc, !.s = s, !.flags = flags]
    /\ ram = EmptyMem
    /\ ppu = PpuNew
    /\ oam = EmptyMem
    /\ apu = ApuNew
    /\ panic = ""
    /\ op = "new"
    /\ steps = 0
    /\ calls = <<>>
    /\ hist = HistNew

\* the console after the interrupt entry point name left the machine m
Interrupted(name, m) ==
    /\ op' = name
    /\ steps' = steps + 1
    /\ hist' = [hist EXCEPT !.pre = [cpu |-> cpu, ram |-> ram]]
    /\ IF m.panic # ""
       THEN panic' = m.panic /\ UNCHANGED <<cpu, ram>>
       ELSE cpu' = m.cpu /\ ram' = m.ram /\ UNCHANGED panic
    /\ UNCHANGED <<rom, overflow_checks, gamepad_0, driver, ppu, oam, apu, calls>>

\* one call of Cpu::nmi
NmiA ==
    /\ panic = ""
    /\ steps < MaxIntCalls
    /\ \E m \in {Nmi(Machine)} : Interrupted("Cpu::nmi", m)

\* one call of Cpu::irq
IrqA ==
    /\ panic = ""
    /\ steps < MaxIntCalls
    /\ \E m \in {Irq(Machine)} : Interrupted("Cpu::irq", m)

NextInt == NmiA \/ IrqA

SpecInt == InitInt /\ [][NextInt]_vars

----------------------------------------------------------------------------
(* C8, C9 *)

\* the machine the last interrupt arrived at
PreMachine == [Machine EXCEPT !.cpu = hist.pre.cpu, !.ram = hist.pre.ram, !.panic = ""]

\* the byte of the stack page at stack pointer s - k, the pointer wrapping
\* within the page
StackAt(s, k) == Get(ram, (STACK_BASE + ((s + 256 - k) % 256)) % 2048)

\* C8: Cpu::nmi always takes effect, whatever the I flag: it pushes the high
\* byte of PC at 0x0100 + S, the low byte at 0x0100 + S - 1, the flags with
\* break cleared at 0x0100 + S - 2, leaves S decreased by 3, sets I, and
\* loads PC from the little-endian word at 0xFFFA
C8_NmiEffect ==
    op = "Cpu::nmi" =>
        LET c0 == hist.pre.cpu
        IN  /\ panic = ""
            /\ StackAt(c0.s, 0) = c0.pc \div 256
            /\ StackAt(c0.s, 1) = c0.pc % 256
            /\ StackAt(c0.s, 2) = Remove(c0.flags, BREAK)
            /\ cpu.s = (c0.s + 256 - 3) % 256
            /\ cpu.flags = Insert(Remove(c0.flags, BREAK), IRQ_DISABLE)
            /\ cpu.pc = Word(PrgLoadB(NMI_VECTOR), PrgLoadB(NMI_VECTOR + 1))

\* C9: Cpu::irq is dropped entirely when the I flag is set (no push, no
\* change of PC, S or flags); when I is clear it has exactly the effect of
\* Cpu::nmi, except that PC is loaded from the word at 0xFFFE
C9_IrqEffect ==
    op = "Cpu::irq" =>
        IF Contains(hist.pre.cpu.flags, IRQ_DISABLE)
        THEN cpu = hist.pre.cpu /\ ram = hist.pre.ram /\ panic = ""
        ELSE LET n == Nmi(PreMachine)
             IN  /\ panic = n.panic
                 /\ n.panic = "" =>
                       /\ ram = n.ram
                       /\ cpu = [n.cpu EXCEPT !.pc = Word(PrgLoadB(BRK_VECTOR),
                                                          PrgLoadB(BRK_VECTOR + 1))]

\* an irq arrived with I clear and was taken
C9_Witness ==
    /\ op = "Cpu::irq"
    /\ ~Contains(hist.pre.cpu.flags, IRQ_DISABLE)
    /\ panic = ""
    /\ cpu.pc = 41012
    /\ cpu.s = hist.pre.cpu.s - 3
    /\ StackAt(hist.pre.cpu.s, 0) = hist.pre.cpu.pc \div 256
    /\ hist.pre.cpu.pc \div 256 # 0

\* an irq arrived with I set and was dropped
C9_WitnessDropped ==
    /\ op = "Cpu::irq"
    /\ Contains(hist.pre.cpu.flags, IRQ_DISABLE)
    /\ cpu = hist.pre.cpu

----------------------------------------------------------------------------
(* Single calls of the CPU's addressing modes and operations *)

\* the console after the call name, made with the address addr, left the
\* machine m
Called(name, m, addr) ==
    /\ op' = name
    /\ steps' = steps + 1
    /\ hist' = [hist EXCEPT !.pre = [cpu |-> cpu, ram |-> ram, ppu |-> ppu, oam |-> oam],
                            !.addr = addr]
    /\ IF m.panic # ""
       THEN panic' = m.panic /\ UNCHANGED <<cpu, ram, ppu, oam, apu>>
       ELSE /\ cpu' = m.cpu /\ ram' = m.ram /\ ppu' = m.ppu /\ oam' = m.oam
            /\ apu' = m.apu /\ UNCHANGED panic
    /\ UNCHANGED <<rom, overflow_checks, gamepad_0, driver, calls>>

\* the flags an operation is called with: I and the unused bit alone (carry
\* clear), and these with N, V, Z and C set
AluFlags == {36, 231}

\* adc and sbc add in u16, where no sum of three bytes overflows, so the
\* build profile makes no difference here
InitAlu ==
    /\ overflow_checks = TRUE
    /\ gamepad_0 = InputNew
    /\ driver = DriverNew
    /\ rom = ProgVectors
    /\ \E a \in 0..255, flags \in AluFlags :
          cpu = [CpuNew(ProgVectors) EXCEPT !.a = a, !.flags = flags]
    /\ ram = EmptyMem
    /\ ppu = PpuNew
    /\ oam = EmptyMem
    /\ apu = ApuNew
    /\ panic = ""
    /\ op = "new"
    /\ steps = 0
    /\ calls = <<>>
    /\ hist = HistNew

\* one call of Cpu::adc with an immediate operand
AdcA ==
    /\ op = "new"
    /\ \E val \in 0..255 : \E m \in {Adc(Machine, Immediate(val))} :
          Called("Cpu::adc", m, Immediate(val))

\* one call of Cpu::sbc with an immediate operand
SbcA ==
    /\ op = "new"
    /\ \E val \in 0..255 : \E m \in {Sbc(Machine, Immediate(val))} :
          Called("Cpu::sbc", m, Immediate(val))

NextAlu == AdcA \/ SbcA

SpecAlu == InitAlu /\ [][NextAlu]_vars

----------------------------------------------------------------------------
(* C12 *)

\* the carry flag of the flags byte, as 0 or 1
CarryIn(flags) == IF Contains(flags, CARRY) THEN 1 ELSE 0

\* the sign of a byte taken as a two's-complement number
IsNegative(val) == val >= 128

\* what an addition of a, val and the carry c must leave in A and the flags
AddsUp(a, val, c) ==
    LET sum == a + val + c
        res == sum % 256
    IN  /\ cpu.a = res
        /\ Contains(cpu.flags, CARRY) <=> sum > 255
        /\ Contains(cpu.flags, OVERFLOW) <=>
              (IsNegative(a) = IsNegative(val) /\ IsNegative(a) # IsNegative(res))
        /\ Contains(cpu.flags, ZERO) <=> res = 0
        /\ Contains(cpu.flags, NEGATIVE) <=> IsNegative(res)
        /\ \A f \in {IRQ_DISABLE, 8, BREAK, 32} :
              Contains(cpu.flags, f) <=> Contains(hist.pre.cpu.flags, f)

\* C12: for every accumulator a, operand and carry-in c, adc leaves
\* A = (a + operand + c) mod 256, carry iff the sum exceeds 255, overflow iff
\* a and the operand have the same sign and the result the other sign; sbc
\* leaves what adc leaves for the operand XOR 0xFF; zero and negative follow
\* the new A
C12_AdcSbc ==
    /\ op = "Cpu::adc" =>
          /\ panic = ""
          /\ AddsUp(hist.pre.cpu.a, hist.addr.val, CarryIn(hist.pre.cpu.flags))
    /\ op = "Cpu::sbc" =>
          /\ panic = ""
          /\ AddsUp(hist.pre.cpu.a, 255 - hist.addr.val, CarryIn(hist.pre.cpu.flags))
          /\ cpu = Adc(PreMachine, Immediate(255 - hist.addr.val)).cpu

\* 0x7F + 0x01 overflowed into the sign without a carry
C12_Witness ==
    /\ op = "Cpu::adc"
    /\ hist.pre.cpu.a = 127 /\ hist.addr.val = 1 /\ ~Contains(hist.pre.cpu.flags, CARRY)
    /\ cpu.a = 128
    /\ Contains(cpu.flags, OVERFLOW) /\ ~Contains(cpu.flags, CARRY)

\* 0x80 - 0x01 with no borrow overflowed out of the sign and kept the carry
C12_WitnessSbc ==
    /\ op = "Cpu::sbc"
    /\ hist.pre.cpu.a = 128 /\ hist.addr.val = 1 /\ Contains(hist.pre.cpu.flags, CARRY)
    /\ cpu.a = 127
    /\ Contains(cpu.flags, OVERFLOW) /\ Contains(cpu.flags, CARRY)

----------------------------------------------------------------------------
(* Single calls of Cpu::rel and of the indirect jump *)

\* the RAM pages that hold data, and the byte at each of their addresses
DataPages == {0, 2, 3, 7}
DataByte(a) == ((a % 256) * 5 + (a \div 256) * 3 + 1) % 256

\* the RAM image of the data pages
DataImage ==
    [a \in {k \in 0..2047 : k \div 256 \in DataPages /\ DataByte(k) # 0} |-> DataByte(a)]

\* the RAM image with the operand bytes b0 and b1 at at and at + 1
DataRam(at, b0, b1) ==
    IF at < 2047 THEN Put(Put(DataImage, at, b0), at + 1, b1) ELSE DataImage

\* where the operand lies: in RAM (as in the unit tests, and at the end of a
\* page), and at the top of the cartridge
OperandPcs == {5, 2045, 65533}

\* the high bytes of the operand word
OperandHis == DataPages

InitAddr ==
    /\ overflow_checks \in BOOLEAN
    /\ gamepad_0 = InputNew
    /\ driver = DriverNew
    /\ \E pc \in OperandPcs, b0 \in 0..255, b1 \in OperandHis :
          /\ cpu = [CpuNew(EmptyMem) EXCEPT !.pc = pc]
          /\ ram = DataRam(pc, b0, b1)
          /\ rom = IF pc >= 32768 THEN Seg(pc, <<b0, b1>>) ELSE EmptyMem
    /\ ppu = PpuNew
    /\ oam = EmptyMem
    /\ apu = ApuNew
    /\ panic = ""
    /\ op = "new"
    /\ steps = 0
    /\ calls = <<>>
    /\ hist = HistNew

\* one call of Cpu::rel
RelA ==
    /\ op = "new"
    /\ \E r \in {AddrMode(Machine, "rel", FALSE)} : Called("Cpu::rel", r.m, r.addr)

\* one indirect jump, as Cpu::step runs it: Cpu::ind, then Cpu::jmp with the
\* address it gave
JmpIndA ==
    /\ op = "new"
    /\ \E r \in {AddrMode(Machine, "ind", FALSE)} : \E m \in {Jmp(r.m, r.addr)} :
          Called("Cpu::jmp", m, r.addr)

NextAddr == RelA \/ JmpIndA

SpecAddr == InitAddr /\ [][NextAddr]_vars

----------------------------------------------------------------------------
(* C11, C13 *)

\* a byte as a signed 8-bit number, -128..127
Signed(val) == IF val >= 128 THEN val - 256 ELSE val

\* the byte the bus held at addr before the last call
PreByte(addr) == BusLoadVal(PreMachine, addr)

\* C11: Cpu::rel resolves the branch target as the address that follows the
\* operand byte plus the operand taken as a signed 8-bit offset, modulo
\* 0x10000; an operand of 0x80 or more gives a target below that address
C11_RelSigned ==
    op = "Cpu::rel" =>
        LET next == hist.pre.cpu.pc + 1
            operand == PreByte(hist.pre.cpu.pc)
        IN  /\ panic = ""
            /\ hist.addr = Absolute((next + Signed(operand) + 65536) % 65536)

\* what Cpu::rel does resolve: the operand is added as an unsigned byte
C11_RelUnsigned ==
    op = "Cpu::rel" =>
        /\ panic = ""
        /\ hist.addr = Absolute((hist.pre.cpu.pc + 1 + PreByte(hist.pre.cpu.pc)) % 65536)

\* C13: an indirect jump through a vector address ending in 0xFF takes the
\* low byte of the target from that address and the high byte from offset 0
\* of the same page; through any other vector address it takes the high byte
\* from the vector address plus one
C13_JmpIndirect ==
    op = "Cpu::jmp" =>
        LET vec == hist.addr.val
        IN  /\ panic = ""
            /\ hist.addr = Indirect(Word(PreByte(hist.pre.cpu.pc),
                                         PreByte((hist.pre.cpu.pc + 1) % 65536)))
            /\ cpu.pc = IF vec % 256 = 255
                        THEN Word(PreByte(vec), PreByte(vec - 255))
                        ELSE Word(PreByte(vec), PreByte(vec + 1))

\* JMP ($02FF) took its high byte from $0200, which differs from the byte at
\* $0300
C13_Witness ==
    /\ op = "Cpu::jmp"
    /\ hist.addr = Indirect(767)
    /\ cpu.pc = Word(DataByte(767), DataByte(512))
    /\ DataByte(512) # DataByte(768)

\* JMP ($02FE) took its high byte from $02FF
C13_WitnessNext ==
    /\ op = "Cpu::jmp"
    /\ hist.addr = Indirect(766)
    /\ cpu.pc = Word(DataByte(766), DataByte(767))

----------------------------------------------------------------------------
(* Single stores to the OAM DMA port *)

\* the cartridge: its first and last page filled with distinct bytes
DataRom ==
    [k \in (0..255) \cup (32512..32767) |-> (((k % 256) * 3 + (k \div 256) + 1) % 255) + 1]

\* the pages copied: RAM pages, a mirror of RAM page 0, and the first and the
\* last page of the cartridge
DmaPages == {0, 2, 7, 8, 128, 255}

\* the OAM addresses the copy starts at
DmaOamAddrs == {0, 1, 128, 255}

InitDma ==
    /\ overflow_checks \in BOOLEAN
    /\ gamepad_0 = InputNew
    /\ driver = DriverNew
    /\ rom = DataRom
    /\ \E cy \in {0, 1} : cpu = [CpuNew(DataRom) EXCEPT !.cy = cy]
    /\ ram = DataImage
    /\ \E a \in DmaOamAddrs : ppu = [PpuNew EXCEPT !.oam_addr = a]
    /\ oam = EmptyMem
    /\ apu = ApuNew
    /\ panic = ""
    /\ op = "new"
    /\ steps = 0
    /\ calls = <<>>
    /\ hist = HistNew

\* one store of a page number to 0x4014 (Cpu::storeb, which runs Cpu::dma)
DmaA ==
    /\ op = "new"
    /\ \E page \in DmaPages : \E m \in {CpuStoreB(Machine, OAMDMA, page)} :
          Called("Cpu::storeb", m, Immediate(page))

SpecDma == InitDma /\ [][DmaA]_vars

----------------------------------------------------------------------------
(* C14 *)

\* OAM holds the 256 bytes of the CPU page, byte i at (a + i) mod 256 for the
\* OAM address a before the store, and the OAM address is a again
PageCopied(page) ==
    /\ panic = ""
    /\ \A i \in 0..255 :
          Get(oam, (hist.pre.ppu.oam_addr + i) % 256) = PreByte(page * 256 + i)
    /\ ppu.oam_addr = hist.pre.ppu.oam_addr

\* C14: for every page p in 0x00..0xFF, 0xFF included, a store of p to
\* 0x4014 copies the 256 bytes at p * 256 .. p * 256 + 255 into OAM, byte i
\* to OAM[(a + i) mod 256], and leaves the OAM address at a
C14_DmaCopiesPage == op = "Cpu::storeb" => PageCopied(hist.addr.val)

\* what holds: every page below 0xFF is copied
C14_DmaCopiesBelowLast ==
    op = "Cpu::storeb" /\ hist.addr.val < 255 => PageCopied(hist.addr.val)

\* what holds: a store of 0xFF copies nothing or panics
C14_DmaLastPage ==
    op = "Cpu::storeb" /\ hist.addr.val = 255 =>
        IF overflow_checks THEN panic = "attempt to add with overflow"
        ELSE panic = "" /\ oam = hist.pre.oam /\ ppu.oam_addr = hist.pre.ppu.oam_addr

----------------------------------------------------------------------------
(* Single accesses to the CPU bus *)

\* the addresses accessed: the ends of every region, the PPU's eight ports
\* and a mirror of them, and all of 0x4000..0x4020
BusAddrs ==
    {0, 2047, 2048, 8191, 16376, 16383, 24575, 24576, 32767, 32768, 65535}
        \cup (8192..8200) \cup (16384..16416)

\* the bytes stored
BusVals == {0, 1, 32, 64, 128, 255}

\* the region CpuBus routes an address to
Region(addr) ==
    IF addr < 8192 THEN "ram"
    ELSE IF addr < 16384 THEN "ppu"
    ELSE IF addr = 16406 THEN "input"
    ELSE IF addr <= 16408 THEN "apu"
    ELSE IF addr < 24576 THEN "unmapped"
    ELSE "mapper"

\* the console in its first frame, before the PPU is warmed up, and at the
\* start of its second
InitBus ==
    /\ overflow_checks \in BOOLEAN
    /\ gamepad_0 = InputNew
    /\ driver = DriverNew
    /\ rom = DataRom
    /\ cpu = CpuNew(DataRom)
    /\ ram = DataImage
    /\ \E frame \in {0, 1} : ppu = [PpuNew EXCEPT !.frame = frame, !.cycle = frame * 89342]
    /\ oam = EmptyMem
    /\ apu = ApuNew
    /\ panic = ""
    /\ op = "new"
    /\ steps = 0
    /\ calls = <<>>
    /\ hist = HistNew

\* one call of CpuBus::peekb
BusPeekA ==
    /\ op = "new"
    /\ \E addr \in BusAddrs :
          /\ op' = "CpuBus::peekb"
          /\ hist' = [hist EXCEPT !.addr = Absolute(addr), !.val = BusPeekVal(Machine, addr)]
          /\ UNCHANGED <<rom, overflow_checks, gamepad_0, driver, cpu, ram, ppu, oam, apu, panic, steps, calls>>

\* one call of CpuBus::loadb
BusLoadA ==
    /\ op = "new"
    /\ \E addr \in BusAddrs : \E m \in {BusLoadFx(Machine, addr)} :
          /\ op' = "CpuBus::loadb"
          /\ hist' = [hist EXCEPT !.addr = Absolute(addr), !.val = BusLoadVal(Machine, addr)]
          /\ ppu' = m.ppu /\ apu' = m.apu /\ panic' = m.panic
          /\ UNCHANGED <<rom, overflow_checks, gamepad_0, driver, cpu, ram, oam, steps, calls>>

\* one call of CpuBus::storeb
BusStoreA ==
    /\ op = "new"
    /\ \E addr \in BusAddrs, val \in BusVals : \E m \in {BusStoreB(Machine, addr, val)} :
          /\ op' = "CpuBus::storeb"
          /\ hist' = [hist EXCEPT !.addr = Absolute(addr), !.val = val]
          /\ IF m.panic # ""
             THEN panic' = m.panic /\ UNCHANGED <<ram, ppu, oam, apu>>
             ELSE /\ ram' = m.ram /\ ppu' = m.ppu /\ oam' = m.oam /\ apu' = m.apu
                  /\ UNCHANGED panic
          /\ UNCHANGED <<rom, overflow_checks, gamepad_0, driver, cpu, steps, calls>>

NextBus == BusPeekA \/ BusLoadA \/ BusStoreA

SpecBus == InitBus /\ [][NextBus]_vars

----------------------------------------------------------------------------
(* C15 *)

\* C15: every peek, load and store on the CPU bus, at any address and with
\* any byte, completes
C15_BusTotal ==
    op \in {"CpuBus::peekb", "CpuBus::loadb", "CpuBus::storeb"} => panic = ""

\* what holds: peeks and loads complete at every address, and a store fails
\* only at 0x4014 and 0x4018, which the APU's storeb does not decode, and at
\* the PPU's control port for a byte with bit 5 or 6 once the PPU is warmed up
C15_BusFailures ==
    /\ op \in {"CpuBus::peekb", "CpuBus::loadb"} => panic = ""
    /\ op = "CpuBus::storeb" =>
          (panic # "" <=>
              \/ hist.addr.val \in {16404, 16408}
              \/ /\ Region(hist.addr.val) = "ppu" /\ hist.addr.val % 8 = 0
                 /\ ppu.frame > 0
                 /\ Bit(hist.val, 5) \/ Bit(hist.val, 6))

----------------------------------------------------------------------------
(* The PPU's sprite evaluation over a scanline *)

MaxEvalSteps == 600

\* Ppu::step with its sprite evaluation: reset_oam2 at pixel 1 of a render
\* line, sprite_eval at pixels 65..256; hit is what output_pixel finds
PpuStepEval(m, hit) ==
    LET p == m.ppu
        evaluating == RenderingEnabled(p) /\ p.scanline < 240
        e == IF evaluating /\ p.pixel = 1
             THEN [m |-> [m EXCEPT !.ppu = ResetOam2(p)], ret |-> FALSE]
             ELSE IF evaluating /\ p.pixel > 64 /\ p.pixel <= 256
             THEN SpriteEval(m, p.scanline)
             ELSE [m |-> m, ret |-> FALSE]
    IN  The({[m |-> [e.m EXCEPT !.ppu = r.ppu], result |-> r.result, overflow |-> e.ret] :
                r \in {PpuStep(e.m.ppu, [hit |-> hit, overflow |-> e.ret])}})

\* a sprite layout: the sprites with Y = 0 (on scanlines 0..7), those with
\* Y = 1 (on scanlines 1..8), and the sprites whose tile byte is 0; every
\* other sprite has Y = 240, and every other tile, attribute and X byte is
\* above 15
Layout(near, next, decoys) == [near |-> near, next |-> next, decoys |-> decoys]

\* the byte of OAM at address a under the layout l
LayoutByte(l, a) ==
    LET i == a \div 4
    IN  CASE a % 4 = 0 -> IF i \in l.near THEN 0 ELSE IF i \in l.next THEN 1 ELSE 240
          [] a % 4 = 1 -> IF i \in l.decoys THEN 0 ELSE 64 + i
          [] a % 4 = 2 -> 32 + (i % 4)
          [] OTHER -> 16 + i

\* Oam.oam for the layout l
OamImage(l) == [a \in {k \in 0..255 : LayoutByte(l, k) # 0} |-> LayoutByte(l, a)]

OamLayouts ==
    {Layout({}, {}, {}), Layout({0}, {}, {}), Layout({3, 10, 63}, {}, {}),
     Layout({2}, {0, 1}, {}), Layout(0..6, {}, {}), Layout(0..6, {}, {10}),
     Layout(0..7, {}, {}), Layout((0..6) \cup {20}, {}, {}),
     Layout(0..8, {}, {}), Layout((0..6) \cup {20, 30}, {}, {})}

\* the start of the second frame, rendering enabled, the sprites in place;
\* sprite evaluation does no arithmetic that can overflow
InitEval ==
    /\ overflow_checks = TRUE
    /\ gamepad_0 = InputNew
    /\ driver = DriverNew
    /\ rom = ProgNmi
    /\ cpu = CpuNew(ProgNmi)
    /\ ram = EmptyMem
    /\ ppu = [PpuNew EXCEPT !.frame = 1, !.cycle = 89342, !.ppumask = 24]
    /\ \E l \in OamLayouts : oam = OamImage(l)
    /\ apu = ApuNew
    /\ panic = ""
    /\ op = "new"
    /\ steps = 0
    /\ calls = <<>>
    /\ hist = HistNew

\* one call of Ppu::step; the pattern tables are blank, so that no pixel is
\* opaque
PpuStepEvalA ==
    /\ panic = ""
    /\ steps < MaxEvalSteps
    /\ \E r \in {PpuStepEval(Machine, FALSE)} :
          IF r.m.panic # "" THEN Halt(r.m.panic)
          ELSE /\ ppu' = r.m.ppu
               /\ op' = "Ppu::step"
               /\ steps' = steps + 1
               /\ hist' = [hist EXCEPT
                             !.result = r.result,
                             !.overflow_at = IF r.overflow THEN @ \cup {ppu.scanline} ELSE @]
               /\ UNCHANGED <<rom, overflow_checks, gamepad_0, driver, cpu, ram, oam, apu, panic, calls>>

SpecEval == InitEval /\ [][PpuStepEvalA]_vars

----------------------------------------------------------------------------
(* C16, C17 *)

\* the sprites of primary OAM in range on a scanline
InRangeSprites(line) == {i \in 0..63 : InRange(line, Get(oam, 4 * i))}

\* the j-th (from 0) sprite of a set, in primary-OAM order
Nth(S, j) == CHOOSE i \in S : Cardinality({q \in S : q < i}) = j

\* slot j of secondary OAM holds the four bytes of sprite i
SlotHolds(j, i) == \A b \in 0..3 : ppu.oam2[4 * j + b] = Get(oam, 4 * i + b)

\* the evaluation of a scanline is over: its last tick, at pixel 256, is done
Evaluated == op = "Ppu::step" /\ ppu.scanline < 240 /\ ppu.pixel = 257

\* C16: after the evaluation ticks of a scanline on which k <= 8 sprites are
\* in range, the first k slots of secondary OAM hold those k sprites in
\* primary-OAM order, and the scanline has not set sprite overflow
C16_SelectsUpToEight ==
    Evaluated =>
        LET S == InRangeSprites(ppu.scanline)
        IN  Cardinality(S) <= 8 =>
               /\ \A j \in 0..(Cardinality(S) - 1) : SlotHolds(j, Nth(S, j))
               /\ ppu.scanline \notin hist.overflow_at

\* what holds: at most seven sprites are selected, and a scanline with fewer
\* than seven sprites in range does not set sprite overflow
C16_SelectsUpToSeven ==
    Evaluated =>
        LET S == InRangeSprites(ppu.scanline)
            k == IF Cardinality(S) < 7 THEN Cardinality(S) ELSE 7
        IN  /\ ppu.oam2_index = k
            /\ \A j \in 0..(k - 1) : SlotHolds(j, Nth(S, j))
            /\ Cardinality(S) < 7 => ppu.scanline \notin hist.overflow_at

RECURSIVE BuggyScan(_, _, _)
\* the hardware's scan after eight sprites were copied: OAM[4n + m] is tested
\* as a Y coordinate; out of range, n and m are both incremented, m without
\* carry, until n wraps
BuggyScan(line, n, m) ==
    IF n > 63 THEN FALSE
    ELSE IF InRange(line, Get(oam, 4 * n + m)) THEN TRUE
    ELSE BuggyScan(line, n + 1, (m + 1) % 4)

\* whether the hardware's evaluation sets sprite overflow on a scanline
HardwareOverflow(line) ==
    LET S == InRangeSprites(line)
    IN  Cardinality(S) >= 8 /\ BuggyScan(line, Nth(S, 7) + 1, 0)

\* C17: a scanline sets sprite overflow exactly when the hardware's buggy
\* evaluation would
C17_BuggyOverflow ==
    Evaluated => (ppu.scanline \in hist.overflow_at <=> HardwareOverflow(ppu.scanline))

----------------------------------------------------------------------------
(* The PPU's pixel output at the start of a scanline *)

MaxPixelSteps == 10

\* the scanlines whose first pixels are put out: the first two rows and the
\* last two rows of the picture
PixelLines == {0, 1, 238, 239}

\* what the shifters give: slot 0 and slot 1 opaque or not, either priority,
\* the background opaque or not
Shifts ==
    {[sprites |-> <<a, b, 0, 0, 0, 0, 0, 0>>, below |-> c, bg |-> d] :
        a \in {0, 1}, b \in {0, 2}, c \in BOOLEAN, d \in {0, 3}}

\* the mask bytes the CPU stores: background and sprites with and without
\* their leftmost eight pixels, and background alone
PixelMasks == {24, 30, 8}

\* the second frame at the start of a scanline, rendering never enabled so far;
\* pixel output does no arithmetic that can overflow
InitPixel ==
    /\ overflow_checks = TRUE
    /\ gamepad_0 = InputNew
    /\ driver = DriverNew
    /\ rom = ProgNmi
    /\ cpu = CpuNew(ProgNmi)
    /\ ram = EmptyMem
    /\ \E line \in PixelLines :
          ppu = [PpuNew EXCEPT !.frame = 1, !.scanline = line,
                               !.cycle = 89342 + 341 * line]
    /\ oam = EmptyMem
    /\ apu = ApuNew
    /\ panic = ""
    /\ op = "new"
    /\ steps = 0
    /\ calls = <<>>
    /\ hist = HistNew

\* the CPU stores to the mask port before the scanline's first pixel
MaskStoreA ==
    /\ op = "new"
    /\ \E val \in PixelMasks : \E m \in {PpuStoreB(Machine, 8193, val)} :
          /\ ppu' = m.ppu
          /\ op' = "Ppu::storeb"
          /\ UNCHANGED <<rom, overflow_checks, gamepad_0, driver, cpu, ram, oam, apu, panic, steps, calls, hist>>

\* one call of Ppu::step, the shifters giving sh
PixelStepA ==
    /\ panic = ""
    /\ op # "new"
    /\ steps < MaxPixelSteps
    /\ \E sh \in Shifts :
       \E r \in {PpuStepEval(Machine, OutputPixel(ppu, ppu.scanline, ppu.pixel, sh))} :
          /\ ppu' = r.m.ppu
          /\ op' = "Ppu::step"
          /\ steps' = steps + 1
          /\ hist' = [hist EXCEPT !.result = r.result, !.shifted = sh]
          /\ UNCHANGED <<rom, overflow_checks, gamepad_0, driver, cpu, ram, oam, apu, panic, calls>>

NextPixel == MaskStoreA \/ PixelStepA

SpecPixel == InitPixel /\ [][NextPixel]_vars

----------------------------------------------------------------------------
(* C18 *)

\* slot 0 gives the sprite pixel: sprites are put out at this pixel and slot
\* 0 is opaque
SlotZeroContributes(p, sh) ==
    /\ sh.sprites[1] # 0
    /\ Bit(p.ppumask, 4)
    /\ ~(p.pixel < 8 /\ Bit(p.ppumask, 2))

\* C18: a pixel put out sets the sprite-zero-hit flag when slot 0 gives the
\* opaque sprite pixel, on every row but the last; the flag is never set by a
\* pixel of the last row, nor by a pixel where slot 0 is transparent or where
\* the sprite pixel comes from another slot
C18_SpriteZeroHit ==
    [][op' = "Ppu::step" /\ ~Bit(ppu.status, 6) =>
          (Bit(ppu'.status, 6) <=>
              SlotZeroContributes(ppu, hist'.shifted) /\ ppu.scanline # 239)
      ]_vars

\* what holds: the flag is set exactly by a pixel where slot 0 gives the
\* sprite pixel and the background pixel is opaque too, on every row
C18_HitOverBackground ==
    [][op' = "Ppu::step" /\ ~Bit(ppu.status, 6) =>
          (Bit(ppu'.status, 6) <=>
              /\ SlotZeroContributes(ppu, hist'.shifted)
              /\ hist'.shifted.bg # 0 /\ ~(ppu.pixel < 8 /\ Bit(ppu.ppumask, 3)))
      ]_vars

\* what holds: the flag is never set where slot 0 is transparent
C18_NeverWithoutSlotZero ==
    [][op' = "Ppu::step" /\ ~Bit(ppu.status, 6) /\ Bit(ppu'.status, 6) =>
          hist'.shifted.sprites[1] # 0
      ]_vars

----------------------------------------------------------------------------
(* Stores to the PPU's control port around vblank *)

MaxCtrlSteps == 4

\* where the PPU is, in its second frame with rendering off and no port
\* touched so far: <<scanline, pixel, status>>, just before the vblank flag
\* is set, and just before the end of vblank with the flag set
CtrlPoints == {<<241, 0, 0>>, <<260, 339, 128>>}

\* the bytes stored to the control port: NMI generation off and on
CtrlVals == {0, 128}

\* no arithmetic of the PPU's step and ports can overflow
InitCtrl ==
    /\ overflow_checks = TRUE
    /\ gamepad_0 = InputNew
    /\ driver = DriverNew
    /\ rom = ProgNmi
    /\ cpu = CpuNew(ProgNmi)
    /\ ram = EmptyMem
    /\ \E at \in CtrlPoints :
          ppu = [PpuNew EXCEPT !.frame = 1, !.scanline = at[1], !.pixel = at[2],
                               !.cycle = 89342 + 341 * at[1] + at[2],
                               !.status = at[3]]
    /\ oam = EmptyMem
    /\ apu = ApuNew
    /\ panic = ""
    /\ op = "new"
    /\ steps = 0
    /\ calls = <<>>
    /\ hist = HistNew

\* one call of Ppu::step, rendering off
CtrlStepA ==
    /\ panic = ""
    /\ steps < MaxCtrlSteps
    /\ \E r \in {PpuStep(ppu, NoPipeline)} :
          /\ ppu' = r.ppu
          /\ op' = "Ppu::step"
          /\ steps' = steps + 1
          /\ hist' = [hist EXCEPT !.result = r.result]
          /\ UNCHANGED <<rom, overflow_checks, gamepad_0, driver, cpu, ram, oam, apu, panic, calls>>

\* the CPU stores to the control port (Ppu::storeb of 0x2000)
CtrlStoreA ==
    /\ panic = ""
    /\ \E val \in CtrlVals : \E m \in {PpuStoreB(Machine, 8192, val)} :
          /\ ppu' = m.ppu
          /\ op' = "Ppu::storeb"
          /\ hist' = [hist EXCEPT !.val = val]
          /\ UNCHANGED <<rom, overflow_checks, gamepad_0, driver, cpu, ram, oam, apu, panic, steps, calls>>

\* the CPU loads the status port (Ppu::loadb of 0x2002)
CtrlLoadA ==
    /\ panic = ""
    /\ ppu' = PpuLoadFx(Machine, 8194).ppu
    /\ op' = "Ppu::loadb"
    /\ UNCHANGED <<rom, overflow_checks, gamepad_0, driver, cpu, ram, oam, apu, panic, steps, calls, hist>>

NextCtrl == CtrlStepA \/ CtrlStoreA \/ CtrlLoadA

SpecCtrl == InitCtrl /\ [][NextCtrl]_vars

----------------------------------------------------------------------------
(* C19 *)

\* a store to the control port raised the immediate NMI
FiresImmediateNmi == ~ppu.immediate_nmi /\ ppu'.immediate_nmi

\* C19: after warm-up a store to the control port fires an immediate NMI
\* exactly when it changes the NMI-enable bit from 0 to 1 while the PPU is in
\* vblank with the vblank flag set
C19_NmiOnEnable ==
    [][op' = "Ppu::storeb" /\ IsWarmedUp(ppu) /\ ~ppu.immediate_nmi =>
          (FiresImmediateNmi <=>
              /\ ~Bit(ppu.ppuctrl, 7) /\ Bit(hist'.val, 7)
              /\ IsInVblank(ppu) /\ Bit(ppu.status, 7))
      ]_vars

\* what holds: the store fires an immediate NMI exactly when it stores a 1 to
\* the NMI-enable bit in vblank with the vblank flag set, whatever the bit was
C19_NmiOnEnableBit ==
    [][op' = "Ppu::storeb" /\ IsWarmedUp(ppu) /\ ~ppu.immediate_nmi =>
          (FiresImmediateNmi <=>
              Bit(hist'.val, 7) /\ IsInVblank(ppu) /\ Bit(ppu.status, 7))
      ]_vars

----------------------------------------------------------------------------
(* The VRAM address registers: the CPU's accesses to the control, mask,     *)
(* scroll, address and data ports and Ppu::step around the scroll cycles    *)

\* the operations of one behaviour
MaxVramSteps == 6

\* where the PPU is, in its second frame with no port touched so far:
\* <<scanline, pixel>>, at the first horizontal increment and at the vertical
\* increment of a render line, and at the first vertical copy of the
\* pre-render line
VramPoints == {<<0, 8>>, <<0, 256>>, <<261, 280>>}

\* the stores: <<address, byte>>; nametable 3 with either address increment
\* to the control port, background and sprites on to the mask port
VramStores ==
    {<<8192, 3>>, <<8192, 7>>, <<8193, 24>>, <<8197, 0>>, <<8197, 255>>,
     <<8198, 0>>, <<8198, 255>>, <<8199, 0>>}

\* the loads: the status port and the data port
VramLoads == {8194, 8199}

\* within MaxVramSteps operations no addition wraps the 16 bits of v
InitVram ==
    /\ overflow_checks = TRUE
    /\ gamepad_0 = InputNew
    /\ driver = DriverNew
    /\ rom = ProgNmi
    /\ cpu = CpuNew(ProgNmi)
    /\ ram = EmptyMem
    /\ \E at \in VramPoints :
          ppu = [PpuNew EXCEPT !.frame = 1, !.scanline = at[1], !.pixel = at[2],
                               !.cycle = 89342 + 341 * at[1] + at[2]]
    /\ oam = EmptyMem
    /\ apu = ApuNew
    /\ panic = ""
    /\ op = "new"
    /\ steps = 0
    /\ calls = <<>>
    /\ hist = HistNew

\* one call of Ppu::step
VramStepA ==
    /\ panic = ""
    /\ steps < MaxVramSteps
    /\ \E r \in {PpuStep(ppu, NoPipeline)} :
          /\ ppu' = r.ppu
          /\ op' = "Ppu::step"
          /\ steps' = steps + 1
          /\ UNCHANGED <<rom, overflow_checks, gamepad_0, driver, cpu, ram, oam, apu, panic, calls, hist>>

\* the CPU stores to a port (Ppu::storeb)
VramStoreA ==
    /\ panic = ""
    /\ steps < MaxVramSteps
    /\ \E st \in VramStores : \E m \in {PpuStoreB(Machine, st[1], st[2])} :
          /\ ppu' = m.ppu
          /\ panic' = m.panic
          /\ op' = "Ppu::storeb"
          /\ steps' = steps + 1
          /\ UNCHANGED <<rom, overflow_checks, gamepad_0, driver, cpu, ram, oam, apu, calls, hist>>

\* the CPU loads from a port (Ppu::loadb)
VramLoadA ==
    /\ panic = ""
    /\ steps < MaxVramSteps
    /\ \E addr \in VramLoads : \E m \in {PpuLoadFx(Machine, addr)} :
          /\ ppu' = m.ppu
          /\ panic' = m.panic
          /\ op' = "Ppu::loadb"
          /\ steps' = steps + 1
          /\ UNCHANGED <<rom, overflow_checks, gamepad_0, driver, cpu, ram, oam, apu, calls, hist>>

NextVram == VramStepA \/ VramStoreA \/ VramLoadA

SpecVram == InitVram /\ [][NextVram]_vars

----------------------------------------------------------------------------
(* C20 *)

\* C20: the current address v and the temporary address t stay within 15
\* bits whatever the stores to ports 0, 5, 6 and 7, the loads of ports 2 and
\* 7 and the scroll updates of Ppu::step
C20_AddressesMasked == ppu.v <= 32767 /\ ppu.t <= 32767

\* what holds: the temporary address stays within 15 bits, and so does the
\* current address until the data port is accessed
C20_TempMasked == ppu.t <= 32767

C20_MaskedUntilData ==
    [][ppu.v <= 32767 /\ ppu'.v > 32767 =>
          op' \in {"Ppu::storeb", "Ppu::loadb"} /\ ppu'.v = ppu.v + VramAddrIncrement(ppu)
      ]_vars

----------------------------------------------------------------------------
(* Palette RAM: the CPU's accesses through the address and data ports, and  *)
(* the colours Ppu::step puts out                                           *)

\* the operations of one behaviour
MaxPaletteSteps == 6

\* where the PPU is, in its second frame with no port touched so far:
\* <<scanline, pixel>>, in the leftmost tile of the first render line and at
\* the start of the first idle line
PalettePoints == {<<0, 6>>, <<240, 0>>}

\* the stores: <<address, byte>>; background and sprites on to the mask
\* port, the bytes of the addresses 0x3F00, 0x3F10, 0x3F3F, 0x1000, 0x0010
\* ... to the address port, a colour of the palette and a byte past it to
\* the data port
PaletteStores ==
    {<<8193, 24>>, <<8198, 63>>, <<8198, 16>>, <<8198, 0>>, <<8199, 33>>, <<8199, 64>>}

\* what the shifters give with the attribute bits: nothing opaque, slot 0
\* over a transparent background, the background alone, and the background
\* over a sprite of slot 1 below it
PaletteInputs ==
    {<<NoShift, [sprite |-> 0, bg |-> 0]>>,
     <<[NoShift EXCEPT !.sprites[1] = 1], [sprite |-> 3, bg |-> 0]>>,
     <<[NoShift EXCEPT !.bg = 3], [sprite |-> 0, bg |-> 3]>>,
     <<[NoShift EXCEPT !.sprites[2] = 2, !.below = TRUE, !.bg = 1],
       [sprite |-> 0, bg |-> 0]>>}

\* within MaxPaletteSteps operations no addition wraps the 16 bits of v
InitPalette ==
    /\ overflow_checks = TRUE
    /\ gamepad_0 = InputNew
    /\ driver = DriverNew
    /\ rom = ProgNmi
    /\ cpu = CpuNew(ProgNmi)
    /\ ram = EmptyMem
    /\ \E at \in PalettePoints :
          ppu = [PpuNew EXCEPT !.frame = 1, !.scanline = at[1], !.pixel = at[2],
                               !.cycle = 89342 + 341 * at[1] + at[2]]
    /\ oam = EmptyMem
    /\ apu = ApuNew
    /\ panic = ""
    /\ op = "new"
    /\ steps = 0
    /\ calls = <<>>
    /\ hist = HistNew

\* one call of Ppu::step, the shifters giving in[1] with the attributes in[2]
PaletteStepA ==
    /\ panic = ""
    /\ steps < MaxPaletteSteps
    /\ \E in \in PaletteInputs :
       \E c \in {IF ppu.scanline < 240 /\ ppu.pixel < 256
                 THEN OutputColour(Machine, ppu.scanline, ppu.pixel, in[1], in[2])
                 ELSE [m |-> Machine, colour |-> hist.colour]} :
       \E r \in {PpuStepEval(c.m, OutputPixel(ppu, ppu.scanline, ppu.pixel, in[1]))} :
          /\ ppu' = IF c.m.panic # "" THEN ppu ELSE r.m.ppu
          /\ panic' = c.m.panic
          /\ op' = "Ppu::step"
          /\ steps' = steps + 1
          /\ hist' = [hist EXCEPT !.shifted = in[1], !.colour = c.colour]
          /\ UNCHANGED <<rom, overflow_checks, gamepad_0, driver, cpu, ram, oam, apu, calls>>

\* the CPU stores to a port (Ppu::storeb)
PaletteStoreA ==
    /\ panic = ""
    /\ steps < MaxPaletteSteps
    /\ \E st \in PaletteStores : \E m \in {PpuStoreB(Machine, st[1], st[2])} :
          /\ ppu' = m.ppu
          /\ panic' = m.panic
          /\ op' = "Ppu::storeb"
          /\ steps' = steps + 1
          /\ hist' = [hist EXCEPT !.port = st[1] % 8, !.val = st[2], !.vaddr = ppu.v]
          /\ UNCHANGED <<rom, overflow_checks, gamepad_0, driver, cpu, ram, oam, apu, calls>>

\* the CPU loads from the data port (Ppu::loadb)
PaletteLoadA ==
    /\ panic = ""
    /\ steps < MaxPaletteSteps
    /\ \E m \in {PpuLoadFx(Machine, 8199)} :
          /\ ppu' = m.ppu
          /\ panic' = m.panic
          /\ op' = "Ppu::loadb"
          /\ steps' = steps + 1
          /\ hist' = [hist EXCEPT !.port = 7, !.vaddr = ppu.v,
                                  !.loaded = PpuLoadVal(Machine, 8199)]
          /\ UNCHANGED <<rom, overflow_checks, gamepad_0, driver, cpu, ram, oam, apu, calls>>

NextPalette == PaletteStepA \/ PaletteStoreA \/ PaletteLoadA

SpecPalette == InitPalette /\ [][NextPalette]_vars

----------------------------------------------------------------------------
(* C21 *)

\* C21: whatever bytes the CPU wrote to palette RAM, a pixel put out looks up
\* a colour index below 0x40 and does not fail
C21_ColourInPalette ==
    [][op' = "Ppu::step" => panic' = "" /\ hist'.colour < 64]_vars

\* what holds: pixel output fails only with a byte of 0x40 or more in palette
\* RAM, and puts out a colour index below 0x40 otherwise
C21_FailsOnStoredByte ==
    [][op' = "Ppu::step" =>
          IF panic' = "" THEN hist'.colour < 64
          ELSE \E k \in DOMAIN ppu.palette : ppu.palette[k] >= 64
      ]_vars

\* palette RAM holds what the CPU stored, unmasked
C21_PaletteUnmasked ==
    [][op' = "Ppu::storeb" /\ hist'.port = 7 /\ ppu.v % 16384 >= 16128 =>
          \E k \in 0..31 : Get(ppu'.palette, k) = hist'.val
      ]_vars

----------------------------------------------------------------------------
(* C22 *)

\* C22: the PPU addresses 0x3F10 and 0x3F00 denote the same byte: after a
\* store to either, loads from both return the byte stored
C22_PaletteMirror ==
    [][op' = "Ppu::storeb" /\ hist'.port = 7 /\ ppu.v % 16384 \in {16128, 16144} =>
          /\ VramPeekB(ppu', 16144) = hist'.val
          /\ VramPeekB(ppu', 16128) = hist'.val
      ]_vars

\* what holds: a store to either address is seen by loads from 0x3F00, while
\* loads from 0x3F10 give the byte of offset 0x10, which no store reaches
C22_MirrorStoreOnly ==
    [][op' = "Ppu::storeb" /\ hist'.port = 7 /\ ppu.v % 16384 \in {16128, 16144} =>
          /\ VramPeekB(ppu', 16128) = hist'.val
          /\ VramPeekB(ppu', 16144) = 0
      ]_vars

\* a load of the data port at 0x3F10 returns 0 whatever was stored
C22_MirrorLoadsZero ==
    [][op' = "Ppu::loadb" /\ ppu.v = 16144 => hist'.loaded = 0]_vars

----------------------------------------------------------------------------
(* The frame sequencer stepped from a reset *)

\* the steps of one behaviour: two sequences of the longer mode
MaxSeqSteps == 74564

\* the frame counter as a delayed reset leaves it, in either mode and with
\* the IRQ inhibited or not: cycle 0, no reset pending, no IRQ pending.  The
\* cycle stays below 37282, so that no addition overflows its 16 bits
InitSeq ==
    /\ overflow_checks = TRUE
    /\ gamepad_0 = InputNew
    /\ driver = DriverNew
    /\ rom = ProgNmi
    /\ cpu = CpuNew(ProgNmi)
    /\ ram = EmptyMem
    /\ ppu = PpuNew
    /\ oam = EmptyMem
    /\ \E mode \in {"FourStep", "FiveStep"} : \E inhibit \in BOOLEAN :
          apu = [ApuNew EXCEPT !.mode = mode, !.irq_inhibit = inhibit]
    /\ panic = ""
    /\ op = "new"
    /\ steps = 0
    /\ calls = <<>>
    /\ hist = HistNew

\* one call of FrameCounter::step
SeqStepA ==
    /\ steps < MaxSeqSteps
    /\ \E r \in {FrameCounterStep(apu)} :
          /\ apu' = r.apu
          /\ op' = "FrameCounter::step"
          /\ steps' = steps + 1
          /\ hist' = [hist EXCEPT !.fc = r.result]
          /\ UNCHANGED <<rom, overflow_checks, gamepad_0, driver, cpu, ram, ppu, oam, panic, calls>>

SpecSeq == InitSeq /\ [][SeqStepA]_vars

----------------------------------------------------------------------------
(* C23, C24 *)

\* C23: in 4-step mode the step numbered steps, counted from the reset,
\* gives a quarter-frame pulse exactly on the steps 7457, 14913, 22371 and
\* 29829 of each sequence of 29830 steps and a half-frame pulse exactly on
\* the steps 14913 and 29829; the IRQ is asserted from step 29829 on unless
\* it is inhibited, and never when it is inhibited
C23_FourStepSequence ==
    apu.mode = "FourStep" /\ steps >= 1 =>
        LET k == steps % (CLOCK_FOUR + 1)
        IN  /\ apu.cycle = k
            /\ hist.fc.quarter_frame <=> k \in {CLOCK_ONE, CLOCK_TWO, CLOCK_THREE, CLOCK_FOUR}
            /\ hist.fc.half_frame <=> k \in {CLOCK_TWO, CLOCK_FOUR}
            /\ hist.fc.irq <=> ~apu.irq_inhibit /\ steps >= CLOCK_FOUR

\* the step 29829 of the first sequence: both pulses and the IRQ
C23_Witness ==
    /\ apu.mode = "FourStep" /\ steps = CLOCK_FOUR
    /\ hist.fc.quarter_frame /\ hist.fc.half_frame /\ hist.fc.irq

\* the first quarter-frame pulse of the second sequence, the IRQ inhibited
C23_WitnessRepeat ==
    /\ apu.mode = "FourStep" /\ steps = CLOCK_FOUR + 1 + CLOCK_ONE
    /\ hist.fc.quarter_frame /\ ~hist.fc.half_frame /\ ~hist.fc.irq

\* C24: in 5-step mode the step numbered steps gives a quarter-frame pulse
\* exactly on the steps 7457, 14913, 22371 and 37281 of each sequence of
\* 37282 steps and a half-frame pulse exactly on the steps 14913 and 37281,
\* none on step 29829, and the frame IRQ is never raised
C24_FiveStepSequence ==
    apu.mode = "FiveStep" /\ steps >= 1 =>
        LET k == steps % (CLOCK_FIVE + 1)
        IN  /\ apu.cycle = k
            /\ hist.fc.quarter_frame <=> k \in {CLOCK_ONE, CLOCK_TWO, CLOCK_THREE, CLOCK_FIVE}
            /\ hist.fc.half_frame <=> k \in {CLOCK_TWO, CLOCK_FIVE}
            /\ ~hist.fc.irq /\ ~apu.irq_flag

\* the step 29829 of the 5-step sequence, without the IRQ inhibited: no
\* pulse, no IRQ
C24_Witness ==
    /\ apu.mode = "FiveStep" /\ steps = CLOCK_FOUR /\ ~apu.irq_inhibit
    /\ ~hist.fc.quarter_frame /\ ~hist.fc.half_frame /\ ~hist.fc.irq

\* the sequence has looped after step 37281: the first pulse of the second
\* sequence
C24_WitnessLoop ==
    /\ apu.mode = "FiveStep" /\ steps = CLOCK_FIVE + 1 + CLOCK_ONE
    /\ hist.fc.quarter_frame /\ ~hist.fc.half_frame

----------------------------------------------------------------------------
(* A write to the frame-counter control register and the steps after it *)

\* the sequencer steps after the write
MaxUpdateSteps == 5

\* the sequencer cycles at which the write comes: at the reset, early in a
\* sequence, around the end of the 4-step sequence and at the end of the
\* 5-step sequence
UpdateCycles == {0, 32, 33, 29826, 29827, 29828, 29829, 37280, 37281}

\* the bytes written: either mode, the IRQ inhibited or not
UpdateVals == {0, 64, 128, 192}

\* the frame counter some steps after a reset, with no reset pending: in
\* 4-step mode the cycle is at most 29829; an IRQ is pending only where it is
\* not inhibited.  The cycle stays below 37287, so that no addition overflows
\* its 16 bits
InitUpdate ==
    /\ overflow_checks = TRUE
    /\ gamepad_0 = InputNew
    /\ driver = DriverNew
    /\ rom = ProgNmi
    /\ cpu = CpuNew(ProgNmi)
    /\ ram = EmptyMem
    /\ ppu = PpuNew
    /\ oam = EmptyMem
    /\ \E mode \in {"FourStep", "FiveStep"} : \E cycle \in UpdateCycles :
       \E flags \in {<<FALSE, FALSE>>, <<FALSE, TRUE>>, <<TRUE, FALSE>>} :
          /\ mode = "FourStep" => cycle <= CLOCK_FOUR
          /\ apu = [ApuNew EXCEPT !.mode = mode, !.cycle = cycle,
                                  !.irq_inhibit = flags[1], !.irq_flag = flags[2]]
    /\ panic = ""
    /\ op = "new"
    /\ steps = 0
    /\ calls = <<>>
    /\ hist = HistNew

\* the CPU stores to 0x4017 (Apu::storeb, FrameCounter::update)
UpdateA ==
    /\ op = "new"
    /\ \E val \in UpdateVals : \E m \in {ApuStoreB(Machine, 16407, val)} :
          /\ apu' = m.apu
          /\ op' = "Apu::storeb"
          /\ hist' = [hist EXCEPT !.val = val, !.update_at = apu.cycle]
          /\ UNCHANGED <<rom, overflow_checks, gamepad_0, driver, cpu, ram, ppu, oam, panic, steps, calls>>

\* one call of FrameCounter::step after the write
UpdateStepA ==
    /\ op # "new"
    /\ steps < MaxUpdateSteps
    /\ \E r \in {FrameCounterStep(apu)} :
          /\ apu' = r.apu
          /\ op' = "FrameCounter::step"
          /\ steps' = steps + 1
          /\ hist' = [hist EXCEPT !.fc = r.result]
          /\ UNCHANGED <<rom, overflow_checks, gamepad_0, driver, cpu, ram, ppu, oam, panic, calls>>

NextUpdate == UpdateA \/ UpdateStepA

SpecUpdate == InitUpdate /\ [][NextUpdate]_vars

----------------------------------------------------------------------------
(* C25 *)

\* the step after the write on which the reset takes effect
ResetDelay == IF hist.update_at % 2 = 0 THEN 3 ELSE 4

\* the length of the sequence of the mode selected
SequenceLength == IF apu.mode = "FiveStep" THEN CLOCK_FIVE + 1 ELSE CLOCK_FOUR + 1

\* the step on which the reset takes effect: the cycle is 0, and in 5-step
\* mode the step gives both pulses
ResetTakesEffect ==
    steps = ResetDelay =>
        /\ apu.cycle = 0
        /\ apu.mode = "FiveStep" => hist.fc.quarter_frame /\ hist.fc.half_frame

\* a write with the inhibit bit set clears the pending IRQ at once
InhibitClears == op = "Apu::storeb" /\ Bit(hist.val, 6) => ~apu.irq_flag

\* C25: a write to 0x4017 resets the sequencer on the 3rd step after it when
\* it comes on an even cycle and on the 4th when on an odd one: the cycle
\* becomes 0 on that step and not earlier, with both pulses in 5-step mode;
\* a write with the inhibit bit set clears a pending IRQ at once
C25_DelayedReset ==
    op # "new" =>
        /\ steps >= 1 /\ steps < ResetDelay => apu.cycle # 0
        /\ ResetTakesEffect
        /\ InhibitClears

\* C25 amended: until the reset takes effect the sequencer counts on, through
\* the end of its sequence if that comes first
C25_DelayedResetCounting ==
    op # "new" =>
        /\ steps >= 1 /\ steps < ResetDelay =>
              apu.cycle = (hist.update_at + steps) % SequenceLength
        /\ ResetTakesEffect
        /\ InhibitClears

\* the reset takes effect on the 4th step after a write on an odd cycle, in
\* 5-step mode
C25_Witness ==
    /\ op = "FrameCounter::step" /\ steps = 4 /\ hist.update_at = 33
    /\ apu.mode = "FiveStep" /\ apu.cycle = 0 /\ hist.fc.quarter_frame

----------------------------------------------------------------------------
(* The sweep units of the two pulse channels *)

\* the stores and half-frame clocks of one behaviour
MaxSweepSteps == 5

\* the bytes stored to the sweep registers: on with negation and the shifts
\* 1 and 3, and on without negation
SweepVals == {137, 139, 129}

\* the bytes stored to the timer registers, low and high
TimerLos == {8, 255}

TimerHis == {7}

\* Apu::new; the sweep adds and subtracts in 32 bits and cannot overflow
InitSweep ==
    /\ overflow_checks = TRUE
    /\ gamepad_0 = InputNew
    /\ driver = DriverNew
    /\ rom = ProgNmi
    /\ cpu = CpuNew(ProgNmi)
    /\ ram = EmptyMem
    /\ ppu = PpuNew
    /\ oam = EmptyMem
    /\ apu = ApuNew
    /\ panic = ""
    /\ op = "new"
    /\ steps = 0
    /\ calls = <<>>
    /\ hist = HistNew

\* the CPU stores to a sweep or timer register of a square (Apu::storeb)
SweepStoreA ==
    /\ steps < MaxSweepSteps
    /\ \E st \in ({16385, 16389} \X SweepVals) \cup ({16386, 16390} \X TimerLos)
                \cup ({16387, 16391} \X TimerHis) :
       \E m \in {ApuStoreB(Machine, st[1], st[2])} :
          /\ apu' = m.apu
          /\ op' = "Apu::storeb"
          /\ steps' = steps + 1
          /\ UNCHANGED <<rom, overflow_checks, gamepad_0, driver, cpu, ram, ppu, oam, panic, calls, hist>>

\* the half-frame clock of Apu::step reaches both squares
HalfFrameA ==
    /\ steps < MaxSweepSteps
    /\ apu' = [apu EXCEPT !.square1 = HalfFrameClock(@), !.square2 = HalfFrameClock(@)]
    /\ op' = "half_frame_clock"
    /\ steps' = steps + 1
    /\ UNCHANGED <<rom, overflow_checks, gamepad_0, driver, cpu, ram, ppu, oam, panic, calls, hist>>

NextSweep == SweepStoreA \/ HalfFrameA

SpecSweep == InitSweep /\ [][NextSweep]_vars

----------------------------------------------------------------------------
(* C26 *)

\* both squares negate, with the same shift and the same period
SameNegatedSweep ==
    /\ apu.square1.sweep.negate /\ apu.square2.sweep.negate
    /\ apu.square1.sweep.shift_count = apu.square2.sweep.shift_count
    /\ apu.square1.period = apu.square2.period

\* period - (period >> shift), the two's-complement target
TwosTarget(sq) == sq.period - sq.period \div Pow2(sq.sweep.shift_count)

\* C26: with negation, pulse 1 computes period - (period >> shift) - 1 and
\* pulse 2 period - (period >> shift), so that for the same period and shift
\* the targets differ by 1; the two squares of the APU have different
\* negation modes
C26_SweepNegation ==
    SameNegatedSweep =>
        /\ CalcTarget(apu.square1.sweep, apu.square1.period)
              = (TwosTarget(apu.square1) - 1) % 65536
        /\ CalcTarget(apu.square2.sweep, apu.square2.period) = TwosTarget(apu.square2)
        /\ apu.square1.sweep.ones_complement # apu.square2.sweep.ones_complement

\* what holds: neither square of the APU is in one's-complement mode, and
\* both compute period - (period >> shift)
C26_BothTwosComplement ==
    /\ ~apu.square1.sweep.ones_complement /\ ~apu.square2.sweep.ones_complement
    /\ SameNegatedSweep =>
          /\ CalcTarget(apu.square1.sweep, apu.square1.period) = TwosTarget(apu.square1)
          /\ CalcTarget(apu.square2.sweep, apu.square2.period) = TwosTarget(apu.square2)

\* a sweep in one's-complement mode does subtract one more
C26_OnesComplementOffset ==
    \A sq \in {apu.square1, apu.square2} :
        sq.sweep.negate =>
            CalcTarget([sq.sweep EXCEPT !.ones_complement = TRUE], sq.period)
                = (TwosTarget(sq) - 1) % 65536

----------------------------------------------------------------------------
(* The bank-switching mapper's program memory (mapper/uxrom.rs).  In this   *)
(* specification rom is its Prg: num_banks, bank, and bytes, a Vec of       *)
(* num_banks * 16 KiB whose byte at index i is PrgByte(i)                   *)

\* the PRG bank counts of the cartridges
UxBanks == {0, 1, 2, 8}

\* the addresses loaded and stored: below program space, and the ends of its
\* two halves
UxAddrs == {16384, 32768, 49151, 49152, 65535}

\* the bytes stored: banks 0, 1 and 7, and bytes with bits above the low
\* three
UxVals == {0, 1, 7, 9, 255}

\* the image: every bank has its own bytes
PrgByte(i) == (i \div 16384) * 16 + (i % 16)

\* Prg::new, as uxrom builds it from the header's bank count
PrgNew(num_banks) ==
    [num_banks |-> num_banks, bank |-> 0, bytes |-> num_banks * 16384]

\* Prg::peekb: the byte and the panic.  `self.num_banks - 1` underflows the
\* usize for a cartridge without banks: a panic where overflow is checked; a
\* wrap otherwise, to an index far past the (empty) bytes
PrgPeekB(prg, addr) ==
    IF addr < 32768 THEN [val |-> 0, panic |-> ""]
    ELSE IF addr >= 49152 /\ prg.num_banks = 0
    THEN [val |-> 0,
          panic |-> IF overflow_checks THEN "attempt to subtract with overflow"
                    ELSE "index out of bounds"]
    ELSE LET bank_number == IF addr >= 49152 THEN prg.num_banks - 1 ELSE prg.bank
             prg_addr == bank_number * 16384 + (addr % 16384)
         IN  IF prg_addr >= prg.bytes
             THEN [val |-> 0, panic |-> "index out of bounds"]
             ELSE [val |-> PrgByte(prg_addr), panic |-> ""]

\* Prg::storeb
PrgStoreB(prg, addr, val) == [prg EXCEPT !.bank = val % 8]

InitUx ==
    /\ overflow_checks \in BOOLEAN
    /\ gamepad_0 = InputNew
    /\ driver = DriverNew
    /\ \E num_banks \in UxBanks : rom = PrgNew(num_banks)
    /\ cpu = CpuNew(ProgNmi)
    /\ ram = EmptyMem
    /\ ppu = PpuNew
    /\ oam = EmptyMem
    /\ apu = ApuNew
    /\ panic = ""
    /\ op = "new"
    /\ steps = 0
    /\ calls = <<>>
    /\ hist = HistNew

\* a store to the cartridge
UxStoreA ==
    /\ panic = ""
    /\ \E addr \in UxAddrs \ {16384} : \E val \in UxVals :
          /\ rom' = PrgStoreB(rom, addr, val)
          /\ op' = "Prg::storeb"
          /\ hist' = [hist EXCEPT !.val = val]
          /\ UNCHANGED <<overflow_checks, gamepad_0, driver, cpu, ram, ppu, oam, apu, panic, steps, calls>>

\* a load from the cartridge
UxLoadA ==
    /\ panic = ""
    /\ \E addr \in UxAddrs : \E r \in {PrgPeekB(rom, addr)} :
          /\ panic' = r.panic
          /\ op' = "Prg::peekb"
          /\ hist' = [hist EXCEPT !.vaddr = addr, !.loaded = r.val]
          /\ UNCHANGED <<rom, overflow_checks, gamepad_0, driver, cpu, ram, ppu, oam, apu, steps, calls>>

NextUx == UxStoreA \/ UxLoadA

SpecUx == InitUx /\ [][NextUx]_vars

----------------------------------------------------------------------------
(* C27 *)

\* the byte at an offset of a bank of the image
BankByte(bank, offset) == PrgByte(bank * 16384 + offset)

\* the load just made returned the byte of the claim: of the final bank in
\* the upper half, of the bank selected in the lower half
LoadedFromBank ==
    /\ hist.vaddr >= 49152 => hist.loaded = BankByte(rom.num_banks - 1, hist.vaddr % 16384)
    /\ hist.vaddr >= 32768 /\ hist.vaddr < 49152 =>
          hist.loaded = BankByte(rom.bank, hist.vaddr % 16384)

\* C27: whatever the bank count and the stores, a load from the upper half
\* returns the byte of the final bank and a load from the lower half the byte
\* of the bank selected by the low bits of the last byte stored (bank 0
\* before any store); the bank selected exists, and no load fails
C27_BankedLoads ==
    op = "Prg::peekb" =>
        /\ rom.bank = hist.val % 8
        /\ rom.bank < rom.num_banks
        /\ panic = ""
        /\ LoadedFromBank

\* what holds: the bank is the low three bits of the last byte stored,
\* whether the cartridge has that bank or not; a load fails exactly when its
\* bank does not exist, and returns the claim's byte otherwise
C27_LoadsOfExistingBanks ==
    /\ rom.bank = hist.val % 8
    /\ op = "Prg::peekb" =>
          IF panic # ""
          THEN \/ rom.num_banks = 0
               \/ hist.vaddr < 49152 /\ rom.bank >= rom.num_banks
          ELSE LoadedFromBank

----------------------------------------------------------------------------
(* ROM images (rom.rs).  An input stream is its first four bytes (fewer if  *)
(* it is shorter), the bytes 4 and 5 (sizes) and 6 and 7 (flags) of its     *)
(* header, and its length; in this specification rom is the result of       *)
(* Rom::from_path                                                           *)

PRG_ROM_BANK_SIZE == 16384

CHR_ROM_BANK_SIZE == 8192

\* b"NES\x1a"
Magic == <<78, 69, 83, 26>>

\* the header bytes drawn: first four bytes, bank counts, flag bytes
RomMagics == {Magic, <<78, 69, 83, 0>>, <<0, 69, 83, 26>>}

RomSizes == {0, 1, 2}

RomFlags == {0, 1, 2, 16, 33, 240, 255}

\* the bytes declared by a header with the bank counts sizes
Declared(sizes) == 16 + sizes[1] * PRG_ROM_BANK_SIZE + sizes[2] * CHR_ROM_BANK_SIZE

\* the stream lengths drawn for a header: empty, inside the magic and the
\* header, and one byte short of, at and past each of its three parts
RomLens(sizes) ==
    {n \in {0, 3, 15, 16, 16 + sizes[1] * PRG_ROM_BANK_SIZE - 1,
            16 + sizes[1] * PRG_ROM_BANK_SIZE,
            Declared(sizes) - 1, Declared(sizes), Declared(sizes) + 1} : n >= 0}

\* no Rom yet, or the Err of Rom::from_path
NoRom(error) ==
    [loaded |-> FALSE, error |-> error,
     header |-> [prg_rom_size |-> 0, chr_rom_size |-> 0, flags_6 |-> 0, flags_7 |-> 0],
     prg |-> 0, chr |-> 0]

\* read_to_buf of a buffer of n bytes from a stream with avail bytes left:
\* what is left, or the io::Error "unexpected eof"
ReadToBuf(n, avail) ==
    IF avail < n THEN [ok |-> FALSE, avail |-> 0] ELSE [ok |-> TRUE, avail |-> avail - n]

\* Rom::from_path: the `?` on read_to_buf turns the io::Error into
\* RomLoadError::IoError
FromPath(input) ==
    LET h == ReadToBuf(16, input.len)
        prg_bytes == input.sizes[1] * PRG_ROM_BANK_SIZE
        chr_bytes == input.sizes[2] * CHR_ROM_BANK_SIZE
        p == ReadToBuf(prg_bytes, h.avail)
        c == ReadToBuf(chr_bytes, p.avail)
    IN  IF ~h.ok THEN NoRom("IoError")
        ELSE IF input.magic # Magic THEN NoRom("FormatError")
        ELSE IF ~p.ok THEN NoRom("IoError")
        ELSE IF ~c.ok THEN NoRom("IoError")
        ELSE [loaded |-> TRUE, error |-> "",
              header |-> [prg_rom_size |-> input.sizes[1], chr_rom_size |-> input.sizes[2],
                          flags_6 |-> input.flags[1], flags_7 |-> input.flags[2]],
              prg |-> prg_bytes, chr |-> chr_bytes]

\* INesHeader::prg_banks, chr_banks and mirroring
PrgBanks(h) == h.prg_rom_size

ChrBanks(h) == h.chr_rom_size

Mirroring(h) == IF BitAnd(h.flags_6, 1) = 0 THEN "Horizontal" ELSE "Vertical"

\* INesHeader::mapper: `self.flags_7 * 0xf0` is a product of two u8
HeaderMapper(m, h) ==
    [m |-> Overflow(m, h.flags_7 * 240 > 255, "attempt to multiply with overflow"),
     val |-> BitOr((h.flags_7 * 240) % 256, h.flags_6 \div 16)]

InitRom ==
    /\ overflow_checks \in BOOLEAN
    /\ gamepad_0 = InputNew
    /\ driver = DriverNew
    /\ rom = NoRom("")
    /\ cpu = CpuNew(ProgNmi)
    /\ ram = EmptyMem
    /\ ppu = PpuNew
    /\ oam = EmptyMem
    /\ apu = ApuNew
    /\ panic = ""
    /\ op = "new"
    /\ steps = 0
    /\ calls = <<>>
    /\ hist = HistNew

\* Rom::from_path of an input stream
FromPathA ==
    /\ op = "new"
    /\ \E magic \in RomMagics : \E sizes \in RomSizes \X RomSizes :
       \E flags \in RomFlags \X RomFlags : \E len \in RomLens(sizes) :
       \E input \in {[magic |-> IF len < 4 THEN SubSeq(magic, 1, len) ELSE magic,
                      sizes |-> sizes, flags |-> flags, len |-> len]} :
          /\ rom' = FromPath(input)
          /\ op' = "Rom::from_path"
          /\ hist' = [hist EXCEPT !.input = input]
          /\ UNCHANGED <<overflow_checks, gamepad_0, driver, cpu, ram, ppu, oam, apu, panic, steps, calls>>

\* INesHeader::mapper of the header parsed
MapperA ==
    /\ op = "Rom::from_path"
    /\ rom.loaded
    /\ \E r \in {HeaderMapper(Machine, rom.header)} :
          /\ panic' = r.m.panic
          /\ op' = "INesHeader::mapper"
          /\ hist' = [hist EXCEPT !.loaded = r.val]
          /\ UNCHANGED <<rom, overflow_checks, gamepad_0, driver, cpu, ram, ppu, oam, apu, steps, calls>>

NextRom == FromPathA \/ MapperA

SpecRom == InitRom /\ [][NextRom]_vars

----------------------------------------------------------------------------
(* C28 *)

\* the header parsed gives the bank counts and the mirroring of the bytes 4,
\* 5 and 6
HeaderFields ==
    rom.loaded =>
        /\ PrgBanks(rom.header) = hist.input.sizes[1]
        /\ ChrBanks(rom.header) = hist.input.sizes[2]
        /\ Mirroring(rom.header) = "Horizontal" <=> hist.input.flags[1] % 2 = 0

\* C28: the header parsed reports the bank counts of the bytes 4 and 5, the
\* mirroring of bit 0 of byte 6 and the mapper (byte 7 AND 0xF0) OR
\* (byte 6 >> 4), computed without overflow whatever the bytes 6 and 7
C28_HeaderAccessors ==
    /\ HeaderFields
    /\ op = "INesHeader::mapper" =>
          /\ panic = ""
          /\ hist.loaded = BitOr(BitAnd(hist.input.flags[2], 240), hist.input.flags[1] \div 16)

\* what holds: the bank counts and the mirroring are those of the header;
\* the mapper is the high nibble of byte 6 when byte 7 is 0, as in a header
\* of mapper 0, and the product overflows when byte 7 is 2 or more
C28_MapperOfPlainHeader ==
    /\ HeaderFields
    /\ op = "INesHeader::mapper" =>
          /\ hist.input.flags[2] = 0 => panic = "" /\ hist.loaded = hist.input.flags[1] \div 16
          /\ panic # "" <=> overflow_checks /\ hist.input.flags[2] >= 2

----------------------------------------------------------------------------
(* C29 *)

\* the stream holds the header and every byte the header declares
AllBytesRead == hist.input.len >= Declared(hist.input.sizes)

\* C29: loading gives a format error and no Rom for a stream that does not
\* start with the magic and for a stream that ends before the declared bytes
\* were read, and gives a Rom only when the magic matches and all the
\* declared bytes were read
C29_FormatErrors ==
    op = "Rom::from_path" =>
        /\ hist.input.magic # Magic \/ ~AllBytesRead =>
              ~rom.loaded /\ rom.error = "FormatError"
        /\ rom.loaded => hist.input.magic = Magic /\ AllBytesRead

\* what holds: a Rom is returned exactly when the magic matches and all the
\* declared bytes were read; the error is a format error only for a full
\* header with another magic, and an IO error for every stream that ends
\* early
C29_ErrorKinds ==
    op = "Rom::from_path" =>
        /\ rom.loaded <=> hist.input.magic = Magic /\ AllBytesRead
        /\ rom.error = "FormatError" <=> hist.input.len >= 16 /\ hist.input.magic # Magic
        /\ rom.error = "IoError" <=>
              \/ hist.input.len < 16
              \/ hist.input.magic = Magic /\ ~AllBytesRead

----------------------------------------------------------------------------
(* The frame pool (emulation.rs, frame_buffer.rs).  One action is one call  *)
(* of the closure that run hands to the audio stream; whether the step ends *)
(* a picture is an input.  A transition from a state in which               *)
(* FrameBuffer::get left no Frame in the PPU is not modelled                *)

MaxPictures == 5

MaxStateSends == 2

VideoFrameAvailable(frame) == [kind |-> "FrameAvailable", frame |-> frame, state |-> ""]

VideoStateChanged(s) == [kind |-> "StateChanged", frame |-> NoFrame, state |-> s]

ControlRecycleFrame(frame) == [kind |-> "RecycleFrame", frame |-> frame, state |-> ""]

ControlSetState(s) == [kind |-> "SetState", frame |-> NoFrame, state |-> s]

\* handle_control_message, for the messages SetState and RecycleFrame
HandleControlMessage(d, message) ==
    IF message.kind = "SetState"
    THEN IF message.state # d.state
         THEN [d EXCEPT !.state = message.state,
                        !.on_frame = Append(@, VideoStateChanged(message.state))]
         ELSE d
    ELSE [d EXCEPT !.frame_buffer = FrameBufferPut(@, message.frame)]

\* `for message in on_control.try_iter()`: every message in flight, in order
RECURSIVE HandleAll(_, _)
HandleAll(d, messages) ==
    IF messages = <<>> THEN d
    ELSE HandleAll(HandleControlMessage(d, Head(messages)), Tail(messages))

\* the PPU's share of nes.step: output_pixel writes into ppu.screen
DrawScreen(d) == [d EXCEPT !.screen.picture = d.picture]

\* `if step_result.new_frame`: the screen is replaced by what
\* FrameBuffer::get returns and sent out
SwapFrame(d) ==
    LET got == FrameBufferGet(d.frame_buffer)
    IN  [d EXCEPT !.frame_buffer = got.frames,
                  !.screen = got.frame,
                  !.on_frame = Append(@, VideoFrameAvailable(d.screen)),
                  !.picture = @ + 1]

\* one call of the closure of run
Generate(d, new_frame) ==
    LET d1 == HandleAll([d EXCEPT !.on_control = <<>>], d.on_control)
        d2 == DrawScreen(d1)
    IN  IF d1.state = "Run" THEN (IF new_frame THEN SwapFrame(d2) ELSE d2) ELSE d1

InitFrames ==
    /\ overflow_checks = TRUE
    /\ gamepad_0 = InputNew
    /\ driver = DriverNew
    /\ rom = <<>>
    /\ cpu = CpuNew(ProgNmi)
    /\ ram = EmptyMem
    /\ ppu = PpuNew
    /\ oam = EmptyMem
    /\ apu = ApuNew
    /\ panic = ""
    /\ op = "new"
    /\ steps = 0
    /\ calls = <<>>
    /\ hist = HistNew

GenerateA ==
    /\ driver.screen # NoFrame
    /\ \E new_frame \in BOOLEAN :
       \E d \in {Generate(driver, new_frame)} :
          /\ new_frame => driver.picture < MaxPictures
          /\ driver' = d
          /\ op' = IF d.picture # driver.picture THEN "new_frame" ELSE "step"
          /\ UNCHANGED <<rom, overflow_checks, gamepad_0, cpu, ram, ppu, oam, apu, panic, steps, calls, hist>>

\* the consumer takes the next message off on_frame and keeps its Frame
ConsumerRecvA ==
    /\ driver.on_frame # <<>>
    /\ \E message \in {Head(driver.on_frame)} :
          driver' = [driver EXCEPT
                        !.on_frame = Tail(@),
                        !.consumer = IF message.kind = "FrameAvailable"
                                     THEN @ \cup {message.frame} ELSE @]
    /\ op' = "recv"
    /\ UNCHANGED <<rom, overflow_checks, gamepad_0, cpu, ram, ppu, oam, apu, panic, steps, calls, hist>>

\* the consumer gives a Frame it holds back in a RecycleFrame message
ConsumerRecycleA ==
    /\ \E frame \in driver.consumer :
          driver' = [driver EXCEPT
                        !.consumer = @ \ {frame},
                        !.on_control = Append(@, ControlRecycleFrame(frame))]
    /\ op' = "recycle"
    /\ UNCHANGED <<rom, overflow_checks, gamepad_0, cpu, ram, ppu, oam, apu, panic, steps, calls, hist>>

\* the consumer asks for a state
ConsumerSetStateA ==
    /\ steps < MaxStateSends
    /\ \E s \in {"Run", "Pause"} :
          driver' = [driver EXCEPT !.on_control = Append(@, ControlSetState(s))]
    /\ steps' = steps + 1
    /\ op' = "set_state"
    /\ UNCHANGED <<rom, overflow_checks, gamepad_0, cpu, ram, ppu, oam, apu, panic, calls, hist>>

NextFrames == GenerateA \/ ConsumerRecvA \/ ConsumerRecycleA \/ ConsumerSetStateA

SpecFrames == InitFrames /\ [][NextFrames]_vars

----------------------------------------------------------------------------
(* C30 *)

\* the frames of the pool of d and those on their way back to it
PoolFrames(d) ==
    {d.on_control[i].frame :
        i \in {j \in DOMAIN d.on_control : d.on_control[j].kind = "RecycleFrame"}}
    \cup {d.frame_buffer[i] : i \in DOMAIN d.frame_buffer}

\* the number of places of d that hold the Frame id
Places(d, id) ==
    (IF d.screen.id = id THEN 1 ELSE 0)
    + Cardinality({i \in DOMAIN d.on_frame :
                      d.on_frame[i].kind = "FrameAvailable" /\ d.on_frame[i].frame.id = id})
    + Cardinality({f \in d.consumer : f.id = id})
    + Cardinality({i \in DOMAIN d.on_control :
                      d.on_control[i].kind = "RecycleFrame" /\ d.on_control[i].frame.id = id})
    + Cardinality({i \in DOMAIN d.frame_buffer : d.frame_buffer[i].id = id})

\* the frames of d outside the PPU
FramesOut(d) ==
    {d.on_frame[i].frame : i \in {j \in DOMAIN d.on_frame : d.on_frame[j].kind = "FrameAvailable"}}
    \cup d.consumer
    \cup PoolFrames(d)

\* each of the four frames is in exactly one place
OnePlace == \A id \in 1..4 : Places(driver, id) = 1

\* a Frame outside the PPU keeps its contents
NoWriteOutside == FramesOut(driver) \subseteq FramesOut(driver') \cup {driver'.screen}

\* at a frame boundary the Frame sent is the one the PPU has just finished
SendsFinished ==
    op' = "new_frame" =>
        /\ driver'.on_frame # <<>>
        /\ driver'.on_frame[Len(driver'.on_frame)] =
              VideoFrameAvailable([id |-> driver.screen.id, picture |-> driver.picture])

\* at a frame boundary the PPU gets a Frame that was in the pool or on its
\* way back to it
TakesFromPool ==
    op' = "new_frame" =>
        /\ driver'.screen # NoFrame
        /\ driver'.screen \in PoolFrames(driver)

\* C30: every Frame is in exactly one place (the PPU, a FrameAvailable
\* message, the consumer, a RecycleFrame message, the pool), the PPU never
\* writes into a Frame that is not in it, and at a frame boundary the Frame
\* sent is the one the PPU has just finished, replaced in the PPU by a
\* Frame taken from the pool
C30_FrameOwnership ==
    [][OnePlace /\ OnePlace' /\ NoWriteOutside /\ SendsFinished /\ TakesFromPool]_vars

\* what holds: every Frame is in exactly one place
C30_OnePlace == OnePlace

\* what holds: frames outside the PPU are not written, the Frame sent is the
\* one just finished, and the PPU gets a Frame of the pool exactly when the
\* pool, with the frames returned to it, is not empty
C30_TransferWhilePoolLasts ==
    [][/\ NoWriteOutside
       /\ SendsFinished
       /\ op' = "new_frame" =>
             IF PoolFrames(driver) # {}
             THEN driver'.screen \in PoolFrames(driver)
             ELSE driver'.screen = NoFrame]_vars

----------------------------------------------------------------------------
(* The emulation driver with the console behind it (emulation.rs): one      *)
(* action is one call of the closure of run, with nes.step as Nes::step.    *)
(* The state Run stands for Run(None); logging is off.  The cartridge has   *)
(* 32 KiB of PRG and 8 KiB of CHR                                           *)

MaxTicks == 6

MaxSends == 2

States == {"Kill", "Step", "Pause", "Run"}

Requests == {"RomContents", "PaletteState", "RegisterState", "PatternTableContents", "PpuState"}

ControlControlRequest(req) == [kind |-> "ControlRequest", frame |-> NoFrame, state |-> req]

VideoControlResponse(req) == [kind |-> "ControlResponse", frame |-> NoFrame, state |-> req]

\* the palettes a program can have stored through 0x2006 and 0x2007
DriverPalettes == {EmptyMem, Put(EmptyMem, 0, 63), Put(EmptyMem, 17, 64)}

\* ControlRequest::PaletteState: Rgb::from_byte of the 32 palette bytes,
\* 0x3F00 upwards
PaletteRequest(m) ==
    LET bad == {x \in 0..31 : VramPeekB(m.ppu, 16128 + x) >= 64}
    IN  IF bad = {} THEN m
        ELSE RgbFromByte(m, VramPeekB(m.ppu, 16128 + (CHOOSE x \in bad : \A y \in bad : x <= y)))

\* handle_control_message of a ControlRequest: the reads of the request, then
\* the response
HandleControlRequest(st, req) ==
    LET m1 == IF req = "PaletteState" THEN PaletteRequest(st.m) ELSE st.m
    IN  IF m1.panic # "" THEN [st EXCEPT !.m = m1]
        ELSE [st EXCEPT !.d.on_frame = Append(@, VideoControlResponse(req))]

\* handle_control_message
HandleMessage(st, message) ==
    IF message.kind = "ControlRequest" THEN HandleControlRequest(st, message.state)
    ELSE [st EXCEPT !.d = HandleControlMessage(st.d, message)]

\* a loop that takes one message off the channel
DrainFirst(st, messages) ==
    IF messages = <<>> THEN st ELSE HandleMessage(st, Head(messages))

\* `for message in on_control.try_iter()`
RECURSIVE Drain(_, _)
Drain(st, messages) ==
    IF messages = <<>> \/ st.m.panic # "" THEN st
    ELSE Drain(HandleMessage(st, Head(messages)), Tail(messages))

\* the closure after nes.step: Step gives way to Pause when the CPU is not
\* busy, and a finished picture is sent out
AfterStep(d, new_frame, busy) ==
    LET d1 == IF d.state = "Step" /\ ~busy
              THEN [d EXCEPT !.state = "Pause",
                             !.on_frame = Append(@, VideoStateChanged("Pause"))]
              ELSE d
    IN  IF new_frame THEN SwapFrame(d1) ELSE d1

\* one call of the closure of run for the machine m and the driver d
Closure(m, d) ==
    The({IF st.m.panic # "" \/ st.d.state \in {"Pause", "Kill"}
         THEN [m |-> st.m, d |-> st.d, stepped |-> FALSE, sample |-> "0.0"]
         ELSE The({[m |-> r.m, stepped |-> TRUE, sample |-> "apu.sample",
                    d |-> AfterStep(DrawScreen(st.d), r.new_frame, r.m.cpu.busy > 0)] :
                   r \in {NesStep(st.m, <<NoPipeline, NoPipeline, NoPipeline>>)}}) :
         st \in {Drain([m |-> m, d |-> [d EXCEPT !.on_control = <<>>]], d.on_control)}})

InitDriver ==
    /\ overflow_checks = TRUE
    /\ gamepad_0 = InputNew
    /\ driver = DriverNew
    /\ rom = ProgPageCross
    /\ cpu = CpuNew(ProgPageCross)
    /\ ram = EmptyMem
    /\ \E palette \in DriverPalettes : ppu = [PpuNew EXCEPT !.palette = palette]
    /\ oam = EmptyMem
    /\ apu = ApuNew
    /\ panic = ""
    /\ op = "new"
    /\ steps = 0
    /\ calls = <<>>
    /\ hist = HistNew

ClosureA ==
    /\ panic = ""
    /\ hist.ticks < MaxTicks
    /\ \E r \in {Closure(Machine, driver)} :
          IF r.m.panic # "" THEN Halt(r.m.panic)
          ELSE /\ cpu' = r.m.cpu
               /\ ram' = r.m.ram
               /\ ppu' = r.m.ppu
               /\ oam' = r.m.oam
               /\ apu' = r.m.apu
               /\ driver' = r.d
               /\ op' = "closure"
               /\ steps' = IF r.stepped THEN steps + 1 ELSE steps
               /\ hist' = [hist EXCEPT !.ticks = @ + 1, !.sample = r.sample,
                                       !.drained = Len(driver.on_control)]
               /\ UNCHANGED <<rom, overflow_checks, gamepad_0, panic, calls>>

\* the other end of on_control sends a message
SendControlA ==
    /\ panic = ""
    /\ hist.sends < MaxSends
    /\ \E message \in {ControlSetState(s) : s \in States}
                        \cup {ControlControlRequest(req) : req \in Requests} :
          driver' = [driver EXCEPT !.on_control = Append(@, message)]
    /\ op' = "send"
    /\ hist' = [hist EXCEPT !.sends = @ + 1]
    /\ UNCHANGED <<rom, overflow_checks, gamepad_0, cpu, ram, ppu, oam, apu, panic, steps, calls>>

NextDriver == ClosureA \/ SendControlA

SpecDriver == InitDriver /\ [][NextDriver]_vars

----------------------------------------------------------------------------
(* C31 *)

RECURSIVE LastState(_, _)
\* the state asked for by the last SetState among the messages, or s
LastState(s, messages) ==
    IF messages = <<>> THEN s
    ELSE LET last == messages[Len(messages)]
         IN  IF last.kind = "SetState" THEN last.state
             ELSE LastState(s, SubSeq(messages, 1, Len(messages) - 1))

\* the state in which the closure decides whether to step
DrainedState == LastState(driver.state, driver.on_control)

\* the messages a transition sends on on_frame
NewVideo == SubSeq(driver'.on_frame, Len(driver.on_frame) + 1, Len(driver'.on_frame))

\* the console is as it was
ConsoleUnchanged == UNCHANGED <<cpu, ram, ppu, oam, apu, steps>>

C31_WitnessPause ==
    /\ op = "closure"
    /\ driver.state = "Pause"
    /\ steps > 0
    /\ hist.sample = "0.0"

----------------------------------------------------------------------------
(* C32 *)

\* the number of StateChanged(Pause) a transition sends
PauseSent == Cardinality({i \in DOMAIN NewVideo : NewVideo[i] = VideoStateChanged("Pause")})

\* no pending message asks for Pause
NoPausePending ==
    \A i \in DOMAIN driver.on_control : driver.on_control[i] # ControlSetState("Pause")

\* the driver is in Pause and has not stepped while no message was sent
StartsPaused == hist.sends = 0 => driver.state = "Pause" /\ steps = 0

\* C32: from Step the driver performs one Nes::step and then is in Pause,
\* having sent StateChanged(Pause) exactly once; it starts in Pause and
\* steps nothing until a message arrives
C32_StepOnce ==
    /\ []StartsPaused
    /\ [][op' = "closure" /\ DrainedState = "Step" /\ NoPausePending =>
             /\ steps' = steps + 1
             /\ driver'.state = "Pause"
             /\ PauseSent = 1]_vars

\* what holds: from Step every call performs one Nes::step, and the one
\* after which the CPU is not busy, the last of the instruction, moves to
\* Pause and sends StateChanged(Pause) once
C32_StepOneInstruction ==
    /\ []StartsPaused
    /\ [][op' = "closure" /\ DrainedState = "Step" /\ NoPausePending =>
             /\ steps' = steps + 1
             /\ IF cpu'.busy > 0
                THEN driver'.state = "Step" /\ PauseSent = 0
                ELSE driver'.state = "Pause" /\ PauseSent = 1]_vars

----------------------------------------------------------------------------
(* C33 *)

\* every pending message is a ControlRequest, and there is one
OnlyRequests ==
    /\ driver.on_control # <<>>
    /\ \A i \in DOMAIN driver.on_control : driver.on_control[i].kind = "ControlRequest"

\* the responses to the pending requests, one each, in order
Responses == [i \in DOMAIN driver.on_control |-> VideoControlResponse(driver.on_control[i].state)]

\* the call of the closure had no requests been pending
Unasked == Closure(Machine, [driver EXCEPT !.on_control = <<>>])

\* the transition is that of a call without the requests, with the
\* responses sent first
AsUnasked ==
    /\ panic' = ""
    /\ cpu' = Unasked.m.cpu /\ ram' = Unasked.m.ram /\ ppu' = Unasked.m.ppu
    /\ oam' = Unasked.m.oam /\ apu' = Unasked.m.apu
    /\ hist'.sample = Unasked.sample
    /\ driver' = [Unasked.d EXCEPT
                     !.on_frame = driver.on_frame \o Responses
                                    \o SubSeq(@, Len(driver.on_frame) + 1, Len(@))]

\* C33: a call of the closure that finds only read requests sends one
\* response of the matching kind for each and otherwise does what the call
\* without the requests does: the same console, driver state and sample
C33_ReadsDoNotMutate ==
    [][op' \in {"closure", "panic"} /\ OnlyRequests => AsUnasked]_vars

\* what holds: so it is while every palette byte is below 64; a
\* PaletteState request with another palette byte ends the process
C33_ReadsOfValidPalette ==
    [][op' \in {"closure", "panic"} /\ OnlyRequests =>
          IF \E i \in DOMAIN driver.on_control : \E x \in 0..31 :
                /\ driver.on_control[i].state = "PaletteState"
                /\ VramPeekB(ppu, 16128 + x) >= 64
          THEN panic' = "Attempted to load invalid color"
          ELSE AsUnasked]_vars

----------------------------------------------------------------------------
(* C36 *)

\* C36: once the state is Kill it stays Kill and nothing is stepped,
\* whatever messages arrive
C36_KillIsFinal ==
    [][driver.state = "Kill" => driver'.state = "Kill" /\ steps' = steps]_vars

\* what holds: a call whose messages leave the state Kill steps nothing,
\* and the state leaves Kill only for the state a SetState message asks for
C36_KillUntilSetState ==
    [][/\ op' = "closure" /\ DrainedState = "Kill" =>
             ConsoleUnchanged /\ driver'.state = "Kill"
       /\ driver.state = "Kill" /\ driver'.state # "Kill" =>
             \E i \in DOMAIN driver.on_control :
                /\ driver.on_control[i].kind = "SetState"
                /\ driver.on_control[i].state # "Kill"]_vars

----------------------------------------------------------------------------
(* C40 (under SpecFrames) *)

\* the consumer has given back every Frame sent to it: none is in flight to
\* it and it holds none
AllReturned ==
    /\ driver.consumer = {}
    /\ \A i \in DOMAIN driver.on_frame : driver.on_frame[i].kind # "FrameAvailable"

\* C40: when a picture is finished and the consumer has returned every
\* Frame it was sent, in RecycleFrame messages sent before this call, the
\* pool yields a Frame for the PPU; so it is at every frame boundary
C40_PoolNeverEmpty ==
    [][op' = "new_frame" /\ AllReturned =>
          /\ driver'.screen # NoFrame
          /\ driver'.screen \in PoolFrames(driver)]_vars

\* a fourth picture was finished, one more than the pool held at first, by
\* a driver whose frames had all come back, and the PPU has a Frame
C40_Witness ==
    /\ op = "new_frame"
    /\ driver.picture = 5
    /\ driver.screen # NoFrame
    /\ driver.consumer = {}
    /\ Len(driver.on_frame) = 1
    /\ Len(driver.frame_buffer) = 2

----------------------------------------------------------------------------
(* Single calls of the controller port.  hist.since counts the loads from   *)
(* 0x4016 since the last store to it, and is 8 before any store             *)

MaxInputSteps == 11

InputAddrs == {16406, 16407}

GamePads == {GamePad({}), GamePad({"a"}), GamePad({"b", "start", "left"}),
             GamePad({"select", "up", "down", "right"}),
             GamePad({Buttons[i] : i \in 1..8})}

InitInput ==
    /\ overflow_checks = TRUE
    /\ gamepad_0 = InputNew
    /\ driver = DriverNew
    /\ rom = <<>>
    /\ cpu = CpuNew(ProgNmi)
    /\ ram = EmptyMem
    /\ ppu = PpuNew
    /\ oam = EmptyMem
    /\ apu = ApuNew
    /\ panic = ""
    /\ op = "new"
    /\ steps = 0
    /\ calls = <<>>
    /\ hist = HistNew

InputSetA ==
    /\ \E gamepad \in GamePads \ {gamepad_0.gamepad} : gamepad_0' = InputSet(gamepad_0, gamepad)
    /\ op' = "Input::set"
    /\ UNCHANGED <<rom, overflow_checks, driver, cpu, ram, ppu, oam, apu, panic, steps, calls, hist>>

InputStoreA ==
    /\ steps < MaxInputSteps
    /\ \E addr \in InputAddrs : \E val \in {0, 1} :
          /\ gamepad_0' = InputStoreB(gamepad_0, addr, val)
          /\ hist' = [hist EXCEPT !.vaddr = addr, !.val = val,
                                  !.since = IF addr = 16406 THEN 0 ELSE @]
    /\ op' = "Input::storeb"
    /\ steps' = steps + 1
    /\ UNCHANGED <<rom, overflow_checks, driver, cpu, ram, ppu, oam, apu, panic, calls>>

InputLoadA ==
    /\ steps < MaxInputSteps
    /\ \E addr \in InputAddrs : \E r \in {InputLoadB(gamepad_0, addr)} :
          /\ gamepad_0' = r.input
          /\ hist' = [hist EXCEPT !.vaddr = addr, !.loaded = r.val,
                                  !.since = IF addr = 16406 /\ @ < 8 THEN @ + 1 ELSE @]
    /\ op' = "Input::loadb"
    /\ steps' = steps + 1
    /\ UNCHANGED <<rom, overflow_checks, driver, cpu, ram, ppu, oam, apu, panic, calls>>

InputPeekA ==
    /\ steps < MaxInputSteps
    /\ \E addr \in InputAddrs :
          hist' = [hist EXCEPT !.vaddr = addr, !.loaded = InputPeekB(gamepad_0, addr)]
    /\ op' = "Input::peekb"
    /\ steps' = steps + 1
    /\ UNCHANGED <<rom, overflow_checks, gamepad_0, driver, cpu, ram, ppu, oam, apu, panic, calls>>

NextInput == InputSetA \/ InputStoreA \/ InputLoadA \/ InputPeekA

SpecInput == InitInput /\ [][NextInput]_vars

----------------------------------------------------------------------------
(* C34 *)

\* 1 if the gamepad holds the n-th button down, n from 0, else 0
ButtonBit(gamepad, n) == IF gamepad[Buttons[n + 1]] THEN 1 ELSE 0

\* C34: the n-th of the eight loads from 0x4016 that follow a store to
\* 0x4016 returns the state, at the time of the load, of the n-th of the
\* buttons A, B, Select, Start, Up, Down, Left, Right (1 = pressed), and a
\* peek of 0x4016 returns the button the next load would, and moves nothing
C34_ButtonsInOrder ==
    [][/\ op' = "Input::loadb" /\ hist'.vaddr = 16406 /\ hist.since < 8 =>
             hist'.loaded = ButtonBit(gamepad_0.gamepad, hist.since)
       /\ op' = "Input::peekb" /\ hist'.vaddr = 16406 /\ hist.since < 8 =>
             /\ hist'.loaded = ButtonBit(gamepad_0.gamepad, hist.since)
             /\ gamepad_0' = gamepad_0]_vars

\* the eighth load after a store returned Right pressed, with A released
C34_Witness ==
    /\ op = "Input::loadb"
    /\ hist.vaddr = 16406
    /\ hist.since = 8
    /\ steps >= 9
    /\ hist.loaded = 1
    /\ gamepad_0.gamepad = GamePad({"select", "up", "down", "right"})

\* a peek between the loads returned Start pressed
C34_WitnessPeek ==
    /\ op = "Input::peekb"
    /\ hist.vaddr = 16406
    /\ hist.since = 3
    /\ hist.loaded = 1
    /\ gamepad_0.gamepad = GamePad({"b", "start", "left"})

----------------------------------------------------------------------------
(* Single calls of Cpu::rol, on the accumulator and on the byte at 0x0010 *)

RolOperands == {0, 1, 64, 127, 128, 129, 255}

InitRol ==
    /\ overflow_checks = TRUE
    /\ gamepad_0 = InputNew
    /\ driver = DriverNew
    /\ rom = ProgVectors
    /\ \E a \in 0..255, flags \in AluFlags :
          cpu = [CpuNew(ProgVectors) EXCEPT !.a = a, !.flags = flags]
    /\ \E val \in RolOperands : ram = Put(EmptyMem, 16, val)
    /\ ppu = PpuNew
    /\ oam = EmptyMem
    /\ apu = ApuNew
    /\ panic = ""
    /\ op = "new"
    /\ steps = 0
    /\ calls = <<>>
    /\ hist = HistNew

RolA ==
    /\ op = "new"
    /\ \E addr \in {Accumulator, Absolute(16)} : \E m \in {Rol(Machine, addr)} :
          Called("Cpu::rol", m, addr)

SpecRol == InitRol /\ [][RolA]_vars

----------------------------------------------------------------------------
(* C35 *)

\* the operand of the rol called, before and after it
RolBefore == IF hist.addr = Accumulator THEN hist.pre.cpu.a ELSE Get(hist.pre.ram, 16)

RolAfter == IF hist.addr = Accumulator THEN cpu.a ELSE Get(ram, 16)

\* the operand is rotated left through the carry, and N is bit 7 of it
Rotated ==
    /\ panic = ""
    /\ RolAfter = ((RolBefore * 2) % 256) + CarryIn(hist.pre.cpu.flags)
    /\ Contains(cpu.flags, CARRY) <=> RolBefore >= 128
    /\ Contains(cpu.flags, NEGATIVE) <=> RolAfter >= 128

\* C35: rol rotates its operand left through the carry (bit 0 from the old
\* carry, the carry from the old bit 7) and sets Z iff the rotated byte is 0
\* and N iff its bit 7 is set, for the accumulator and for a byte of memory,
\* whatever the accumulator holds
C35_RolFlags ==
    op = "Cpu::rol" => Rotated /\ (Contains(cpu.flags, ZERO) <=> RolAfter = 0)

\* what holds: the rotation, the carry and N are as stated; Z is set iff
\* the accumulator is 0 after the call, which is the rotated byte only when
\* the operand is the accumulator
C35_RolZeroOfAccumulator ==
    op = "Cpu::rol" => Rotated /\ (Contains(cpu.flags, ZERO) <=> cpu.a = 0)

----------------------------------------------------------------------------
(* Sprite evaluation with the CPU storing to the OAM address and OAM data   *)
(* ports (0x2003, 0x2004) on the scanline being evaluated                   *)

\* the pixels of scanline 0 before whose Ppu::step a store may arrive
OamStorePoints == {0, 60, 200}

OamStoreVals == {4, 255}

InitOam ==
    /\ overflow_checks = TRUE
    /\ gamepad_0 = InputNew
    /\ driver = DriverNew
    /\ rom = ProgNmi
    /\ cpu = CpuNew(ProgNmi)
    /\ ram = EmptyMem
    /\ ppu = [PpuNew EXCEPT !.frame = 1, !.cycle = 89342, !.ppumask = 24]
    /\ \E l \in {Layout({}, {}, {}), Layout(0..6, {}, {})} : oam = OamImage(l)
    /\ apu = ApuNew
    /\ panic = ""
    /\ op = "new"
    /\ steps = 0
    /\ calls = <<>>
    /\ hist = HistNew

\* one call of Ppu::storeb for the port 3 or 4
OamPortStoreA ==
    /\ panic = ""
    /\ op # "Ppu::storeb"
    /\ ppu.scanline = 0 /\ ppu.pixel \in OamStorePoints
    /\ \E port \in {3, 4} : \E val \in OamStoreVals :
       \E m \in {PpuStoreB(Machine, 8192 + port, val)} :
          /\ ppu' = m.ppu
          /\ oam' = m.oam
          /\ op' = "Ppu::storeb"
          /\ hist' = [hist EXCEPT !.port = port, !.val = val]
          /\ UNCHANGED <<rom, overflow_checks, gamepad_0, driver, cpu, ram, apu, panic, steps, calls>>

NextOam == PpuStepEvalA \/ OamPortStoreA

SpecOam == InitOam /\ [][NextOam]_vars

----------------------------------------------------------------------------
(* C37 *)

\* C37: no evaluation tick uses an index of 256 or more into the primary
\* OAM or of 32 or more into the secondary OAM, also after stores to the
\* ports 0x2003 and 0x2004 that leave an OAM address other than 0 while
\* rendering is enabled
C37_EvalInBounds == panic # "index out of bounds"

\* what holds: the secondary index stays below 32 (at most 7 sprites are
\* copied), and the primary index OAM address + 4n + m stays below 256 while
\* the OAM address is 0
C37_InBoundsFromAddressZero ==
    /\ ppu.oam2_index <= 7
    /\ panic = "index out of bounds" =>
          /\ ppu.oam_addr > 0
          /\ ppu.oam_addr + 4 * (ppu.n + 1) + 3 > 255

----------------------------------------------------------------------------
(* The stack helpers of the CPU, called with every stack pointer *)

MaxStackCalls == 2

\* the bytes pushed, and the RAM the pulls read: the two ends of the stack
\* page and the bytes next to it hold different values
StackVals == {171}
StackWords == {4660}
StackRam ==
    Put(Put(Put(Put(Put(Put(EmptyMem, 255, 16), 256, 17), 257, 18), 510, 19), 511, 20), 512, 21)

InitStack ==
    /\ overflow_checks \in BOOLEAN
    /\ gamepad_0 = InputNew
    /\ driver = DriverNew
    /\ rom = ProgVectors
    /\ \E s \in 0..255 : cpu = [CpuNew(ProgVectors) EXCEPT !.s = s]
    /\ ram = StackRam
    /\ ppu = PpuNew
    /\ oam = EmptyMem
    /\ apu = ApuNew
    /\ panic = ""
    /\ op = "new"
    /\ steps = 0
    /\ calls = <<>>
    /\ hist = HistNew

\* the console after the stack helper name pushed val, or pulled loaded, and
\* left the machine m
Stacked(name, m, val, loaded) ==
    /\ op' = name
    /\ steps' = steps + 1
    /\ hist' = [hist EXCEPT !.pre = [cpu |-> cpu, ram |-> ram],
                            !.val = val, !.loaded = loaded]
    /\ IF m.panic # ""
       THEN panic' = m.panic /\ UNCHANGED <<cpu, ram>>
       ELSE cpu' = m.cpu /\ ram' = m.ram /\ UNCHANGED panic
    /\ UNCHANGED <<rom, overflow_checks, gamepad_0, driver, ppu, oam, apu, calls>>

\* one call of Cpu::pushb
PushBA ==
    /\ panic = ""
    /\ steps < MaxStackCalls
    /\ \E val \in StackVals : \E m \in {PushB(Machine, val)} :
          Stacked("Cpu::pushb", m, val, 0)

\* one call of Cpu::pushw
PushWA ==
    /\ panic = ""
    /\ steps < MaxStackCalls
    /\ \E val \in StackWords : \E m \in {PushW(Machine, val)} :
          Stacked("Cpu::pushw", m, val, 0)

\* one call of Cpu::popb
PopBA ==
    /\ panic = ""
    /\ steps < MaxStackCalls
    /\ \E l \in {PopB(Machine)} : Stacked("Cpu::popb", l.m, 0, l.val)

\* one call of Cpu::popw
PopWA ==
    /\ panic = ""
    /\ steps < MaxStackCalls
    /\ \E l \in {PopW(Machine)} : Stacked("Cpu::popw", l.m, 0, l.val)

NextStack == PushBA \/ PushWA \/ PopBA \/ PopWA

SpecStack == InitStack /\ [][NextStack]_vars

----------------------------------------------------------------------------
(* C38 *)

\* the address of the stack page k bytes above stack pointer s, the pointer
\* wrapping within the page
StackPage(s, k) == STACK_BASE + ((s + k) % 256)

\* the stack pointer was at least 2 below the top of the page and above its
\* bottom when the last helper was called
AwayFromEnds == hist.pre.cpu.s >= 2 /\ hist.pre.cpu.s <= 253

\* what the stack helper called last did, were the stack pointer to wrap
\* within the page
StackWrapped ==
    LET s == hist.pre.cpu.s
        r == hist.pre.ram
    IN  /\ panic = ""
        /\ op = "Cpu::pushb" =>
              /\ ram = Put(r, StackPage(s, 0), hist.val)
              /\ cpu.s = (s + 255) % 256
        /\ op = "Cpu::pushw" =>
              /\ ram = Put(Put(r, StackPage(s, 0), hist.val \div 256),
                           StackPage(s, 255), hist.val % 256)
              /\ cpu.s = (s + 254) % 256
        /\ op = "Cpu::popb" =>
              /\ hist.loaded = Get(r, StackPage(s, 1))
              /\ cpu.s = (s + 1) % 256
        /\ op = "Cpu::popw" =>
              /\ hist.loaded = Word(Get(r, StackPage(s, 1)), Get(r, StackPage(s, 2)))
              /\ cpu.s = (s + 2) % 256

\* C38: every stack push and pull accesses an address inside the stack page
\* 0x0100..0x01FF and the stack pointer wraps modulo 256 without failing: a
\* push with S = 0x00 writes 0x0100 and leaves S = 0xFF, a pull with S = 0xFF
\* reads 0x0100 and leaves S = 0x00, and a two-byte pull with S = 0xFE or
\* 0xFF reads only addresses within the stack page
C38_StackWraps ==
    op \in {"Cpu::pushb", "Cpu::pushw", "Cpu::popb", "Cpu::popw"} =>
        StackWrapped

\* what holds: a push or pull made with the stack pointer away from both
\* ends of the page stays in the page and does not fail
C38_StackAwayFromEnds ==
    (op \in {"Cpu::pushb", "Cpu::pushw", "Cpu::popb", "Cpu::popw"} /\ AwayFromEnds) =>
        StackWrapped

\* what holds in a build without overflow checks: the pushes wrap within
\* the page, and a pull with S = 0xFF reads 0x0200, above the page
C38_PullLeavesPage ==
    (~overflow_checks /\ hist.pre.cpu.s = 255) =>
        /\ op = "Cpu::popb" => hist.loaded = Get(hist.pre.ram, 512) /\ cpu.s = 0
        /\ op = "Cpu::pushb" => StackWrapped

----------------------------------------------------------------------------
(* The status register of the APU, written and read by the CPU *)

MaxStatusSteps == 5

\* the length registers of square 1, square 2, the triangle and the noise
LengthRegisters == {16387, 16391, 16395, 16399}

\* the bytes stored to a length register: the lengths 254 and 2
LengthVals == {8, 24}

\* the bytes stored to the status register: every choice of the four
\* channels
StatusVals == 0..15

InitStatus ==
    /\ overflow_checks = TRUE
    /\ gamepad_0 = InputNew
    /\ driver = DriverNew
    /\ rom = ProgNmi
    /\ cpu = CpuNew(ProgNmi)
    /\ ram = EmptyMem
    /\ ppu = PpuNew
    /\ oam = EmptyMem
    /\ apu = ApuNew
    /\ panic = ""
    /\ op = "new"
    /\ steps = 0
    /\ calls = <<>>
    /\ hist = HistNew

\* the CPU stores val to the register addr of the APU (CpuBus::storeb)
StatusStored(addr, val) ==
    \E m \in {BusStoreB(Machine, addr, val)} :
       /\ apu' = m.apu
       /\ op' = "Apu::storeb"
       /\ steps' = steps + 1
       /\ hist' = [hist EXCEPT !.port = addr, !.val = val]
       /\ UNCHANGED <<rom, overflow_checks, gamepad_0, driver, cpu, ram, ppu, oam, panic, calls>>

\* a store to a length register
LengthStoreA ==
    /\ steps < MaxStatusSteps
    /\ \E addr \in LengthRegisters, val \in LengthVals : StatusStored(addr, val)

\* a store to the status register 0x4015
StatusStoreA ==
    /\ steps < MaxStatusSteps
    /\ \E val \in StatusVals : StatusStored(16405, val)

\* a load of the status register 0x4015 (CpuBus::loadb)
StatusLoadA ==
    /\ steps < MaxStatusSteps
    /\ \E m \in {BusLoadFx(Machine, 16405)}, val \in {BusLoadVal(Machine, 16405)} :
          /\ apu' = m.apu
          /\ op' = "Apu::loadb"
          /\ steps' = steps + 1
          /\ hist' = [hist EXCEPT !.loaded = val]
          /\ UNCHANGED <<rom, overflow_checks, gamepad_0, driver, cpu, ram, ppu, oam, panic, calls>>

NextStatus == LengthStoreA \/ StatusStoreA \/ StatusLoadA

SpecStatus == InitStatus /\ [][NextStatus]_vars

----------------------------------------------------------------------------
(* C39 *)

\* the last store was to the status register, and no store came since
StatusWritten == op \in {"Apu::storeb", "Apu::loadb"} /\ hist.port = 16405

\* the channel ch, whose enable bit is bit b of the status register, was
\* disabled by the last store and its length counter is 0
Silenced(ch, b) == ~Bit(hist.val, b) => ch.length.length = 0

\* the status read reports 0 for the channel of bit b, disabled by the last
\* store
ReportsOff(b) == ~Bit(hist.val, b) => ~Bit(hist.loaded, b)

\* C39: a write to the status register 0x4015 with a channel's enable bit
\* clear zeroes that channel's length counter, for each of pulse 1, pulse 2,
\* triangle and noise, so an immediately following read of 0x4015 reports
\* the bit of every disabled channel as 0
C39_DisableZeroesLength ==
    StatusWritten =>
        /\ Silenced(apu.square1, 0) /\ Silenced(apu.square2, 1)
        /\ Silenced(apu.triangle, 2) /\ Silenced(apu.noise, 3)
        /\ op = "Apu::loadb" =>
              ReportsOff(0) /\ ReportsOff(1) /\ ReportsOff(2) /\ ReportsOff(3)

\* what holds: the write zeroes the length counters of pulse 1, pulse 2 and
\* the noise, whose bits then read 0, and leaves the triangle's as it was
C39_DisableZeroesAllButTriangle ==
    StatusWritten =>
        /\ Silenced(apu.square1, 0) /\ Silenced(apu.square2, 1) /\ Silenced(apu.noise, 3)
        /\ op = "Apu::loadb" =>
              /\ ReportsOff(0) /\ ReportsOff(1) /\ ReportsOff(3)
              /\ Bit(hist.loaded, 2) <=> apu.triangle.length.length > 0

\* what holds: no store to the status register changes the triangle
C39_TriangleKept ==
    [][op' = "Apu::storeb" /\ hist'.port = 16405 => apu'.triangle = apu.triangle]_vars

====
